---- MODULE Spec2Model ----
(***************************************************************************)
(* Model of the WSRA safety pipeline: the guardrail classifier             *)
(* (wsra/core/guardrails.py), the scope resolver (wsra/core/scope.py),     *)
(* the mode authorizer (enforce) and the three paths that hand commands    *)
(* to the executor (wsra/cli.py, wsra/repl.py, wsra/core/ai_loop.py).      *)
(*                                                                         *)
(* Commands, patterns and reasons are character strings; the string        *)
(* primitives of Python the code relies on (in, lower, strip, split,       *)
(* startswith, endswith, shlex.split, re.findall) are modelled on them     *)
(* character by character.                                                 *)
(***************************************************************************)
EXTENDS Integers, Sequences, FiniteSets, TLC

(***************************************************************************)
(* Python string primitives                                                *)
(***************************************************************************)

\* s[i-1] of Python (1-based here), as a one-character string
Ch(s, i) == SubSeq(s, i, i)

\* s[i-1:] of Python
From(s, i) == SubSeq(s, i, Len(s))

\* `p in s`
Contains(s, p) ==
    \E i \in 0..(Len(s) - Len(p)) : SubSeq(s, i + 1, i + Len(p)) = p

\* s.startswith(p)
StartsWith(s, p) == Len(p) <= Len(s) /\ SubSeq(s, 1, Len(p)) = p

\* s.endswith(p)
EndsWith(s, p) ==
    Len(p) <= Len(s) /\ SubSeq(s, Len(s) - Len(p) + 1, Len(s)) = p

UpperChars == "ABCDEFGHIJKLMNOPQRSTUVWXYZ"
LowerChars == "abcdefghijklmnopqrstuvwxyz"
DigitChars == "0123456789"

CharsOf(s) == { Ch(s, i) : i \in 1..Len(s) }

Alpha == CharsOf(UpperChars) \cup CharsOf(LowerChars)
Digit == CharsOf(DigitChars)
\* \w of the re module (ASCII part)
WordChar == Alpha \cup Digit \cup {"_"}
\* the class [a-zA-Z0-9.-]
HostChar == Alpha \cup Digit \cup {".", "-"}
\* str.strip() / str.split() separators (ASCII part)
Whitespace == {" ", "\t", "\n", "\r"}

LowerCh(c) ==
    IF c \in CharsOf(UpperChars)
    THEN Ch(LowerChars, CHOOSE i \in 1..Len(UpperChars) : Ch(UpperChars, i) = c)
    ELSE c

UpperCh(c) ==
    IF c \in CharsOf(LowerChars)
    THEN Ch(UpperChars, CHOOSE i \in 1..Len(LowerChars) : Ch(LowerChars, i) = c)
    ELSE c

\* s.upper()
RECURSIVE Upper(_)
Upper(s) == IF Len(s) = 0 THEN "" ELSE UpperCh(Ch(s, 1)) \o Upper(From(s, 2))

\* s.lower()
RECURSIVE Lower(_)
Lower(s) == IF Len(s) = 0 THEN "" ELSE LowerCh(Ch(s, 1)) \o Lower(From(s, 2))

RECURSIVE LStrip(_)
LStrip(s) ==
    IF Len(s) > 0 /\ Ch(s, 1) \in Whitespace THEN LStrip(From(s, 2)) ELSE s

RECURSIVE RStrip(_)
RStrip(s) ==
    IF Len(s) > 0 /\ Ch(s, Len(s)) \in Whitespace
    THEN RStrip(SubSeq(s, 1, Len(s) - 1))
    ELSE s

\* s.strip()
Strip(s) == RStrip(LStrip(s))

\* the largest index r >= p - 1 with s[p..r] all in cls
RECURSIVE RunEnd(_, _, _)
RunEnd(s, p, cls) ==
    IF p <= Len(s) /\ Ch(s, p) \in cls THEN RunEnd(s, p + 1, cls) ELSE p - 1

\* s.split(): the maximal runs of non-whitespace characters, in order
RECURSIVE SplitFrom(_, _, _)
SplitFrom(s, p, acc) ==
    IF p > Len(s) THEN acc
    ELSE IF Ch(s, p) \in Whitespace THEN SplitFrom(s, p + 1, acc)
    ELSE LET e == RunEnd(s, p, CharsOf(s) \ Whitespace)
         IN  SplitFrom(s, e + 1, Append(acc, SubSeq(s, p, e)))

Split(s) == SplitFrom(s, 1, <<>>)

(***************************************************************************)
(* shlex.split(cmd): POSIX mode, whitespace_split, no comments.            *)
(* state is " " (between tokens), "a" (in a word), a quote character, or   *)
(* the escape character; esc is shlex's escapedstate.  ok = FALSE is the   *)
(* ValueError of an unclosed quotation or a trailing escape.               *)
(***************************************************************************)
ShlexQuotes == {"'", "\""}
ShlexEscape == "\\"
ShlexEscapedQuotes == {"\""}

ShlexInit ==
    [state |-> " ", esc |-> " ", token |-> "", quoted |-> FALSE, parts |-> <<>>]

\* one iteration of shlex.read_token's loop on the character c
ShlexStep(st, c) ==
    IF st.state = " " THEN
        IF c \in Whitespace THEN st
        ELSE IF c = ShlexEscape THEN [st EXCEPT !.state = c, !.esc = "a"]
        ELSE IF c \in ShlexQuotes THEN [st EXCEPT !.state = c]
        ELSE [st EXCEPT !.state = "a", !.token = c]
    ELSE IF st.state \in ShlexQuotes THEN
        IF c = st.state THEN [st EXCEPT !.state = "a", !.quoted = TRUE]
        ELSE IF c = ShlexEscape /\ st.state \in ShlexEscapedQuotes
             THEN [st EXCEPT !.state = c, !.esc = st.state, !.quoted = TRUE]
        ELSE [st EXCEPT !.token = st.token \o c, !.quoted = TRUE]
    ELSE IF st.state = ShlexEscape THEN
        IF st.esc \in ShlexQuotes /\ c # st.state /\ c # st.esc
        THEN [st EXCEPT !.state = st.esc, !.token = (st.token \o st.state) \o c]
        ELSE [st EXCEPT !.state = st.esc, !.token = st.token \o c]
    ELSE \* st.state = "a"
        IF c \in Whitespace
        THEN IF Len(st.token) > 0 \/ st.quoted
             THEN [ShlexInit EXCEPT !.parts = Append(st.parts, st.token)]
             ELSE [st EXCEPT !.state = " "]
        ELSE IF c \in ShlexQuotes THEN [st EXCEPT !.state = c]
        ELSE IF c = ShlexEscape THEN [st EXCEPT !.state = c, !.esc = "a"]
        ELSE [st EXCEPT !.token = st.token \o c]

RECURSIVE ShlexScan(_, _, _)
ShlexScan(s, i, st) ==
    IF i > Len(s) THEN st
    ELSE LET nxt == ShlexStep(st, Ch(s, i))
         IN  IF nxt.state = "" THEN nxt ELSE ShlexScan(s, i + 1, nxt)

\* at end of input: an open quotation or a pending escape raises ValueError
ShlexSplit(s) ==
    LET st == ShlexScan(s, 1, ShlexInit) IN
    IF st.state \in ShlexQuotes \/ st.state = ShlexEscape
    THEN [ok |-> FALSE, parts |-> st.parts]
    ELSE [ok |-> TRUE,
          parts |-> IF Len(st.token) > 0 \/ st.quoted
                    THEN Append(st.parts, st.token) ELSE st.parts]

\* `try: shlex.split(cmd) except Exception: cmd.split()`
Tokens(cmd) ==
    LET r == ShlexSplit(cmd) IN IF r.ok THEN r.parts ELSE Split(cmd)

(***************************************************************************)
(* The three target patterns of scope.py, as re.findall applies them:      *)
(* scanning left to right, greedy with backtracking, non-overlapping.      *)
(***************************************************************************)

\* \b at the gap after the first i characters of s
WB(s, i) ==
    (i >= 1 /\ Ch(s, i) \in WordChar) # (i < Len(s) /\ Ch(s, i + 1) \in WordChar)

Max(S) == CHOOSE x \in S : \A y \in S : y <= x

\* ends e of [a-zA-Z]{2,} starting right after the dot at k (then \b if needWB)
TldEnds(s, k, needWB) ==
    { e \in (k + 2)..RunEnd(s, k + 1, Alpha) : (~needWB) \/ WB(s, e) }

\* End of the match of [a-zA-Z0-9.-]+\.[a-zA-Z]{2,} (followed by \b if needWB)
\* that starts at p, 0 when there is none.  The first group backtracks from
\* its longest run, so the last usable dot wins; then the longest suffix.
HostEnd(s, p, needWB) ==
    LET dots == { k \in (p + 1)..RunEnd(s, p, HostChar) :
                     Ch(s, k) = "." /\ TldEnds(s, k, needWB) # {} }
    IN  IF dots = {} THEN 0 ELSE Max(TldEnds(s, Max(dots), needWB))

\* HOST_RE = \b([a-zA-Z0-9.-]+\.[a-zA-Z]{2,})\b
RECURSIVE HostFindAll(_, _, _)
HostFindAll(s, p, acc) ==
    IF p > Len(s) THEN acc
    ELSE LET e == IF WB(s, p - 1) THEN HostEnd(s, p, TRUE) ELSE 0
         IN  IF e = 0 THEN HostFindAll(s, p + 1, acc)
             ELSE HostFindAll(s, e + 1, acc \cup {SubSeq(s, p, e)})

\* length of the match of https?:// at p, 0 when there is none
SchemeLen(s, p) ==
    IF StartsWith(From(s, p), "https://") THEN 8
    ELSE IF StartsWith(From(s, p), "http://") THEN 7
    ELSE 0

\* URL_RE = https?://([a-zA-Z0-9.-]+\.[a-zA-Z]{2,}); findall yields the group
RECURSIVE UrlFindAll(_, _, _)
UrlFindAll(s, p, acc) ==
    IF p > Len(s) THEN acc
    ELSE LET n == SchemeLen(s, p)
             e == IF n = 0 THEN 0 ELSE HostEnd(s, p + n, FALSE)
         IN  IF e = 0 THEN UrlFindAll(s, p + 1, acc)
             ELSE UrlFindAll(s, e + 1, acc \cup {SubSeq(s, p + n, e)})

\* end of \d{1,3} at p when it must be followed by `next` ("" for \b), else 0
OctetEnd(s, p, next) ==
    LET r == RunEnd(s, p, Digit) IN
    IF r < p \/ r > p + 2 THEN 0
    ELSE IF next = "" THEN (IF WB(s, r) THEN r ELSE 0)
    ELSE IF r < Len(s) /\ Ch(s, r + 1) = next THEN r ELSE 0

\* end of the match of (?:\d{1,3}\.){3}\d{1,3}\b at p, 0 when there is none
IpEnd(s, p) ==
    LET a == OctetEnd(s, p, ".")
        b == IF a = 0 THEN 0 ELSE OctetEnd(s, a + 2, ".")
        c == IF b = 0 THEN 0 ELSE OctetEnd(s, b + 2, ".")
    IN  IF c = 0 THEN 0 ELSE OctetEnd(s, c + 2, "")

\* IP_RE = \b(?:(?:\d{1,3}\.){3}\d{1,3})\b
RECURSIVE IpFindAll(_, _, _)
IpFindAll(s, p, acc) ==
    IF p > Len(s) THEN acc
    ELSE LET e == IF WB(s, p - 1) THEN IpEnd(s, p) ELSE 0
         IN  IF e = 0 THEN IpFindAll(s, p + 1, acc)
             ELSE IpFindAll(s, e + 1, acc \cup {SubSeq(s, p, e)})

\* scope.py _extract_targets
extract_targets(cmd) ==
    UrlFindAll(cmd, 1, {}) \cup HostFindAll(cmd, 1, {}) \cup IpFindAll(cmd, 1, {})

Range(seq) == { seq[i] : i \in 1..Len(seq) }

\* scope.py _extract_paths
extract_paths(cmd) == { tok \in Range(Tokens(cmd)) : StartsWith(tok, "/") }

(***************************************************************************)
(* pathlib: str(Path(p).resolve()).  The model resolves lexically: the     *)
(* session's file system is taken to hold no symbolic links.               *)
(***************************************************************************)

\* the working directory of the wsra process
Cwd == "/w"

\* p.split("/")
RECURSIVE SplitSlash(_, _, _, _)
SplitSlash(s, p, start, acc) ==
    IF p > Len(s) THEN Append(acc, SubSeq(s, start, Len(s)))
    ELSE IF Ch(s, p) = "/"
         THEN SplitSlash(s, p + 1, p + 1, Append(acc, SubSeq(s, start, p - 1)))
         ELSE SplitSlash(s, p + 1, start, acc)

\* drop "" and ".", let ".." remove the component before it (none at the root)
RECURSIVE Normalize(_, _, _)
Normalize(parts, i, acc) ==
    IF i > Len(parts) THEN acc
    ELSE LET c == parts[i] IN
         IF Len(c) = 0 \/ c = "." THEN Normalize(parts, i + 1, acc)
         ELSE IF c = ".."
              THEN Normalize(parts, i + 1,
                             IF Len(acc) = 0 THEN acc ELSE SubSeq(acc, 1, Len(acc) - 1))
              ELSE Normalize(parts, i + 1, Append(acc, c))

RECURSIVE JoinSlash(_, _)
JoinSlash(parts, i) ==
    IF i > Len(parts) THEN "" ELSE ("/" \o parts[i]) \o JoinSlash(parts, i + 1)

resolve(p) ==
    LET abs   == IF StartsWith(p, "/") THEN p ELSE (Cwd \o "/") \o p
        parts == Normalize(SplitSlash(abs, 1, 1, <<>>), 1, <<>>)
    IN  IF Len(parts) = 0 THEN "/" ELSE JoinSlash(parts, 1)

(***************************************************************************)
(* repr() of a set and of a list of strings, as the f-strings of scope.py  *)
(* print them.  The order of a Python set is unspecified; one is chosen.   *)
(***************************************************************************)
RECURSIVE ReprItems(_)
ReprItems(S) ==
    IF S = {} THEN ""
    ELSE LET x == CHOOSE y \in S : TRUE
         IN  (("'" \o x) \o "'") \o
             (IF S = {x} THEN "" ELSE ", " \o ReprItems(S \ {x}))

ReprSet(S) == IF S = {} THEN "set()" ELSE ("{" \o ReprItems(S)) \o "}"

RECURSIVE ReprSeqItems(_, _)
ReprSeqItems(q, i) ==
    IF i > Len(q) THEN ""
    ELSE (("'" \o q[i]) \o "'") \o
         (IF i = Len(q) THEN "" ELSE ", " \o ReprSeqItems(q, i + 1))

ReprList(q) == ("[" \o ReprSeqItems(q, 1)) \o "]"

(***************************************************************************)
(* The inputs: commands, modes and scopes                                  *)
(***************************************************************************)

\* models.py Mode
Modes == {"PLAN_ONLY", "EXECUTE_WITH_APPROVAL", "AUTO_READONLY", "SIMULATE"}

\* the command blocks `wsra propose` writes for the domain d / the host h
DomainCommands(d) ==
    << "dig +short " \o d,
       ("whois " \o d) \o " | head -n 30",
       "curl -I --max-time 10 https://" \o d >>

HostCommands(h) ==
    << "curl -I --max-time 10 http://" \o h,
       "curl -I --max-time 10 https://" \o h >>

\* the domains, hosts, denylists and path roots a session is configured with
DomainLists == { <<>>, <<"example.com">>, <<"sub.example.com">>, <<"com">>,
                 <<"example.com", "sub.example.com">> }
HostLists   == { <<>>, <<"sub.example.com", "10.0.0.1">> }
DenyLists   == { <<>>, <<"example.com">>, <<"sub.example.com">>, <<"evil.com">>,
                 <<"sub.example.com", "evil.com">> }
PathLists   == { <<".">>, <<"/">>, <<"/etc">> }

Scopes ==
    [domains : DomainLists, hosts : HostLists, paths : PathLists,
     out_of_scope : DenyLists]

\* commands an operator or the proposer may submit
TypedCommands ==
    { "curl -I https://example.com",
      "curl https://example.com",
      "curl --head https://sub.example.com",
      "curl --header X:1 https://example.com",
      "curl https://example.com -o ' -I'",
      "'curl' https://sub.example.com",
      "wget --spider https://example.com",
      "wget https://example.com",
      "wget --spiderx https://example.com",
      "rm -rf /",
      "echo rm -rf /",
      "cat x; RM -RF /",
      "curl -I https://example.com/reboot",
      "wget --spider http://sub.example.com/mkfs",
      "echo \"nc -e",
      "chmod -R 777 /",
      "id",
      "whoami",
      "",
      "dig sub.example.com",
      "dig evil.com",
      "dig sub.example.com evil.com",
      "dig example.com sub.example.com",
      "dig notexample.com",
      "nmap 10.0.0.1",
      "ls /etc",
      "ls /etcx",
      "cat /w/notes",
      "cat notes.txt",
      "echo \"unterminated" }

ProposedCommands ==
    UNION { Range(DomainCommands(d)) : d \in {"example.com", "sub.example.com"} }
    \cup UNION { Range(HostCommands(h)) : h \in UNION { Range(l) : l \in HostLists } }

Commands == TypedCommands \cup ProposedCommands

(***************************************************************************)
(* guardrails.py: the classifier                                           *)
(***************************************************************************)
LOW_READONLY_BINARIES ==
    { "echo", "cat", "head", "tail", "ls", "stat", "file", "strings", "sha256sum",
      "curl", "wget", "dig", "nslookup", "whois", "openssl" }

DENY_PATTERNS ==
    << "rm -rf", "mkfs", "dd of=/dev", "reboot", "shutdown",
       "nc -e", "bash -i >&", "chmod -R 777 /" >>

Min(S) == CHOOSE x \in S : \A y \in S : x <= y

\* the leading token: parts[0] of shlex.split, of cmd.split() when that raises
head_token(cmd) ==
    LET parts == Tokens(cmd) IN IF Len(parts) > 0 THEN parts[1] ELSE ""

\* the branches of classify_and_check after the deny-list loop
classify_head(cmd) ==
    LET head == head_token(cmd) IN
    IF head = "curl" THEN
        IF Contains(cmd, " -I") \/ Contains(cmd, " --head")
        THEN [risk |-> "low", read_only_ok |-> TRUE,
              why |-> "curl with --head/-I (metadata only)"]
        ELSE [risk |-> "medium", read_only_ok |-> FALSE,
              why |-> "curl without --head/-I is not read-only safe by default"]
    ELSE IF head = "wget" THEN
        IF Contains(cmd, " --spider")
        THEN [risk |-> "low", read_only_ok |-> TRUE,
              why |-> "wget --spider (metadata only)"]
        ELSE [risk |-> "medium", read_only_ok |-> FALSE,
              why |-> "wget without --spider is not read-only safe by default"]
    ELSE IF head \in LOW_READONLY_BINARIES THEN
        [risk |-> "low", read_only_ok |-> TRUE,
         why |-> head \o " considered read-only (MVP allowlist)"]
    ELSE
        [risk |-> "medium", read_only_ok |-> FALSE,
         why |-> (IF Len(head) > 0 THEN head ELSE "command") \o " requires approval"]

\* Faulty variant: the allowlist is consulted before the deny-list loop
classify_allowlist_first(cmd) ==
    LET txt  == Lower(Strip(cmd))
        hits == { i \in 1..Len(DENY_PATTERNS) : Contains(txt, DENY_PATTERNS[i]) }
    IN  IF classify_head(cmd).risk = "low" THEN classify_head(cmd)
        ELSE IF hits # {}
        THEN [risk |-> "medium", read_only_ok |-> FALSE,
              why |-> "Denied pattern: " \o DENY_PATTERNS[Min(hits)]]
        ELSE classify_head(cmd)

\* Faulty variant: the deny-list loop starts at the second pattern
classify_skip_first_pattern(cmd) ==
    LET txt  == Lower(Strip(cmd))
        hits == { i \in 2..Len(DENY_PATTERNS) : Contains(txt, DENY_PATTERNS[i]) }
    IN  IF hits # {}
        THEN [risk |-> "medium", read_only_ok |-> FALSE,
              why |-> "Denied pattern: " \o DENY_PATTERNS[Min(hits)]]
        ELSE classify_head(cmd)

classify_and_check(cmd) ==
    LET txt  == Lower(Strip(cmd))
        hits == { i \in 1..Len(DENY_PATTERNS) : Contains(txt, DENY_PATTERNS[i]) }
    IN  IF hits # {}
        THEN [risk |-> "medium", read_only_ok |-> FALSE,
              why |-> "Denied pattern: " \o DENY_PATTERNS[Min(hits)]]
        ELSE classify_head(cmd)

(***************************************************************************)
(* The state                                                               *)
(***************************************************************************)
VARIABLES
    parsed,       \* what the code computes from a command's text alone
    config,       \* SessionManager.config: [mode, scope], fixed once loaded
    command,      \* the command under authorization (SpecGuard)
    verdict,      \* what the guardrails returned for it (SpecGuard)
    blocks_file,  \* proposed_blocks.json: the blocks of the last `propose`
    approved,     \* the block ids that have an <id>.approved marker
    console,      \* what the last operator command printed or raised
    executed,     \* every command handed to run_command, with its caller
    audit,        \* assessment_log.jsonl, one record per line
    memory,       \* memory/messages.jsonl, one record per line
    ai,           \* the locals of run_ai_loop and execute_block_with_approval
    presented,    \* history: every block proposed or put to the approval prompt
    arg,          \* the argument of the function applied (SpecRedact, SpecObserve)
    ret           \* what the function returned for it

vars == << parsed, config, command, verdict, blocks_file, approved, console,
           executed, audit, memory, ai, presented, arg, ret >>

sessionVars == << blocks_file, approved, console, executed, audit, memory, ai,
                  presented >>

\* the variables of the specifications of single functions
callVars == << arg, ret >>

\* classify_and_check, _extract_targets and _extract_paths are functions of the
\* command text; parsed holds their results for every command of the model, and
\* deny_hits the deny patterns the lower-cased text contains.
ParsedInit ==
    parsed = [c \in Commands |->
                [class     |-> classify_and_check(c),
                 tokens    |-> Tokens(c),
                 shlex_ok  |-> ShlexSplit(c).ok,
                 targets   |-> extract_targets(c),
                 paths     |-> extract_paths(c),
                 deny_hits |-> { pat \in Range(DENY_PATTERNS) :
                                    Contains(Lower(Strip(c)), pat) }]]

(***************************************************************************)
(* scope.py: the scope resolver                                            *)
(***************************************************************************)

\* Faulty variant: a domain allows only itself, never its subdomains
target_allowed_exact(scope, t) ==
    \/ \E allow \in Range(scope.domains) : allow = t
    \/ t \in Range(scope.hosts)

\* `allow == t or t.endswith("." + allow)` for some allowed domain, or t a host
target_allowed(scope, t) ==
    \/ \E allow \in Range(scope.domains) : allow = t \/ EndsWith(t, "." \o allow)
    \/ t \in Range(scope.hosts)

\* `str(rp).startswith(str(root))` for some allowed root
path_allowed(scope, ap) ==
    \E i \in 1..Len(scope.paths) :
        StartsWith(resolve(ap), resolve(scope.paths[i]))

\* Faulty variant: the allow sets are consulted before the denylist
target_check_allow_first(scope, targets) ==
    LET disallowed == Range(scope.out_of_scope) IN
    IF targets # {} /\ (\E t \in targets : target_allowed(scope, t))
    THEN [ok |-> TRUE, reason |-> "In scope"]
    ELSE IF targets # {} /\ (\E t \in targets : t \in disallowed)
    THEN [ok |-> FALSE,
          reason |-> ("Target " \o ReprSet(targets \cap disallowed))
                     \o " is explicitly out-of-scope."]
    ELSE IF targets # {}
    THEN [ok |-> FALSE,
          reason |-> ("No referenced target " \o ReprSet(targets))
                     \o " is in allowed domains/hosts."]
    ELSE [ok |-> TRUE, reason |-> "In scope"]

\* Faulty variant: a command must reference an allowed target to be in scope
target_check_closed(scope, targets) ==
    LET disallowed == Range(scope.out_of_scope) IN
    IF \E t \in targets : t \in disallowed
    THEN [ok |-> FALSE,
          reason |-> ("Target " \o ReprSet(targets \cap disallowed))
                     \o " is explicitly out-of-scope."]
    ELSE IF ~(\E t \in targets : target_allowed(scope, t))
    THEN [ok |-> FALSE,
          reason |-> ("No referenced target " \o ReprSet(targets))
                     \o " is in allowed domains/hosts."]
    ELSE [ok |-> TRUE, reason |-> "In scope"]

\* the `if targets:` block: the denylist first, then the allow sets
target_check(scope, targets) ==
    LET disallowed == Range(scope.out_of_scope) IN
    IF targets # {} /\ (\E t \in targets : t \in disallowed)
    THEN [ok |-> FALSE,
          reason |-> ("Target " \o ReprSet(targets \cap disallowed))
                     \o " is explicitly out-of-scope."]
    ELSE IF targets # {} /\ ~(\E t \in targets : target_allowed(scope, t))
    THEN [ok |-> FALSE,
          reason |-> ("No referenced target " \o ReprSet(targets))
                     \o " is in allowed domains/hosts."]
    ELSE [ok |-> TRUE, reason |-> "In scope"]

\* the `if abs_paths:` block; a set has no order, the path reported is any bad one
path_check(scope, abs_paths) ==
    LET bad_paths == { ap \in abs_paths : ~path_allowed(scope, ap) } IN
    IF bad_paths # {}
    THEN [ok |-> FALSE,
          reason |-> ((("Absolute path " \o (CHOOSE ap \in bad_paths : TRUE))
                     \o " not under allowed roots ") \o ReprList(scope.paths))]
    ELSE [ok |-> TRUE, reason |-> "In scope"]

in_scope_command(cfg, cmd) ==
    LET t == target_check(cfg.scope, parsed[cmd].targets) IN
    IF ~t.ok THEN t ELSE path_check(cfg.scope, parsed[cmd].paths)

(***************************************************************************)
(* guardrails.py: the mode authorizer                                      *)
(***************************************************************************)
\* the branch `cfg.mode in ("PLAN_ONLY", "SIMULATE")`
forbidden_decision(mode) ==
    [allow |-> FALSE, needs |-> TRUE,
     reason |-> ("Mode=" \o mode) \o " forbids execution"]

\* Faulty variant: AUTO_READONLY lets through whatever the deny list spared
auto_readonly_not_denied(c) ==
    IF ~StartsWith(c.why, "Denied pattern")
    THEN [allow |-> TRUE, needs |-> FALSE,
          reason |-> "Allowed in AUTO_READONLY: " \o c.why]
    ELSE [allow |-> FALSE, needs |-> TRUE,
          reason |-> "Needs approval in AUTO_READONLY: " \o c.why]

\* the branch `cfg.mode == "AUTO_READONLY"`; c is the classification
auto_readonly_decision(c) ==
    IF c.risk = "low" /\ c.read_only_ok
    THEN [allow |-> TRUE, needs |-> FALSE,
          reason |-> "Allowed in AUTO_READONLY: " \o c.why]
    ELSE [allow |-> FALSE, needs |-> TRUE,
          reason |-> "Needs approval in AUTO_READONLY: " \o c.why]

\* Faulty variant: EXECUTE_WITH_APPROVAL waives approval for low-risk commands
approval_waived_for_low(c) ==
    IF c.risk = "low" /\ c.read_only_ok
    THEN [allow |-> TRUE, needs |-> FALSE, reason |-> "Approval required: " \o c.why]
    ELSE [allow |-> FALSE, needs |-> TRUE, reason |-> "Approval required: " \o c.why]

\* the branch `cfg.mode == "EXECUTE_WITH_APPROVAL"`
approval_decision(c) ==
    [allow |-> FALSE, needs |-> TRUE, reason |-> "Approval required: " \o c.why]

\* Faulty variant: only PLAN_ONLY forbids; SIMULATE is handled as AUTO_READONLY
mode_decision_simulate_runs(mode, c) ==
    IF mode = "PLAN_ONLY" THEN forbidden_decision(mode)
    ELSE IF mode \in {"AUTO_READONLY", "SIMULATE"} THEN auto_readonly_decision(c)
    ELSE IF mode = "EXECUTE_WITH_APPROVAL" THEN approval_decision(c)
    ELSE [allow |-> FALSE, needs |-> TRUE, reason |-> "Unknown mode"]

\* Faulty variant: a mode the code does not know is handled as AUTO_READONLY
mode_decision_unknown_is_auto(mode, c) ==
    IF mode \in {"PLAN_ONLY", "SIMULATE"} THEN forbidden_decision(mode)
    ELSE IF mode = "EXECUTE_WITH_APPROVAL" THEN approval_decision(c)
    ELSE auto_readonly_decision(c)

\* the mode logic of enforce, reached when the command is in scope
mode_decision(mode, c) ==
    IF mode \in {"PLAN_ONLY", "SIMULATE"} THEN forbidden_decision(mode)
    ELSE IF mode = "AUTO_READONLY" THEN auto_readonly_decision(c)
    ELSE IF mode = "EXECUTE_WITH_APPROVAL" THEN approval_decision(c)
    ELSE [allow |-> FALSE, needs |-> TRUE, reason |-> "Unknown mode"]

\* Faulty variant: the mode is consulted before the scope
enforce_mode_first(cfg, cmd) ==
    LET scope == in_scope_command(cfg, cmd)
        d     == mode_decision(cfg.mode, parsed[cmd].class)
    IN  IF d.allow \/ scope.ok THEN d
        ELSE IF cfg.mode \in {"PLAN_ONLY", "SIMULATE"} THEN d
        ELSE [allow |-> FALSE, needs |-> TRUE,
              reason |-> "Out of scope: " \o scope.reason]

enforce(cfg, cmd) ==
    LET scope == in_scope_command(cfg, cmd) IN
    IF ~scope.ok
    THEN [allow |-> FALSE, needs |-> TRUE,
          reason |-> "Out of scope: " \o scope.reason]
    ELSE mode_decision(cfg.mode, parsed[cmd].class)

(***************************************************************************)
(* Initial values of the session files and processes                       *)
(***************************************************************************)
\* what an operator command printed: the command, the outcome, and the
\* message when the command ended with SystemExit
\* hows: what became of the run_command calls the command made, in order
Said(op, status, detail) ==
    [op |-> op, status |-> status, detail |-> detail, hows |-> <<>>]

SaidRuns(op, status, hows) ==
    [op |-> op, status |-> status, detail |-> "", hows |-> hows]

\* proposed_blocks.json does not exist
NoFile == [exists |-> FALSE, blocks |-> <<>>]

\* nothing authorized yet
NoVerdict == [done |-> FALSE]

\* no function applied
NoCall == arg = "" /\ ret = [done |-> FALSE]

\* run_ai_loop not running
AiOff == [pc |-> "off", batch |-> <<>>, bi |-> 0, ci |-> 0, results |-> <<>>,
          cycles |-> 0]

SessionInit ==
    /\ blocks_file = NoFile
    /\ approved = {}
    /\ console = Said("", "", "")
    /\ executed = {}
    /\ audit = <<>>
    /\ memory = <<>>
    /\ ai = AiOff
    /\ presented = {}

(***************************************************************************)
(* SpecGuard: the guardrails as a function of the session and the command  *)
(***************************************************************************)
\* the modes enforce is called with: the four of models.py and, for its last
\* return, a value that is none of them
GuardModes == Modes \cup {"ROOT"}

GuardInit ==
    /\ ParsedInit
    /\ config \in [mode : GuardModes, scope : Scopes]
    /\ command \in Commands
    /\ verdict = NoVerdict
    /\ SessionInit
    /\ NoCall

\* enforce(config, command), with the classification and scope result it is built from
Authorize ==
    /\ ~verdict.done
    /\ verdict' = [done    |-> TRUE,
                   class   |-> parsed[command].class,
                   scope   |-> in_scope_command(config, command),
                   enforce |-> enforce(config, command)]
    /\ UNCHANGED << parsed, config, command, sessionVars, callVars >>

GuardNext == Authorize

SpecGuard == GuardInit /\ [][GuardNext]_vars

(***************************************************************************)
(* The session: REPL RUN, the CLI subcommands and the AI proposal loop     *)
(***************************************************************************)
MaxAudit  == 2    \* lines the audit log may reach
MaxCycles == 2    \* proposal cycles of the AI loop

\* the sessions of the model: one scoped by domains with a denylisted
\* subdomain, one scoped by hosts with the whole file system as path root
SessionScopes ==
    { [domains |-> <<"example.com", "sub.example.com">>, hosts |-> <<>>,
       paths |-> <<".">>, out_of_scope |-> <<"sub.example.com">>],
      [domains |-> <<>>, hosts |-> <<"sub.example.com", "10.0.0.1">>,
       paths |-> <<"/">>, out_of_scope |-> <<>>] }

\* what may happen to the process of a command: the binary cannot be
\* started, the process exits in time, or it outlives the timeout
Events == {"unstartable", "exits", "hangs"}

\* what run_command does: it raises or it returns an exit code
Raised   == [raised |-> TRUE,  rc |-> 0]
Exit(rc) == [raised |-> FALSE, rc |-> rc]

\* Faulty variant: the timeout reaches the caller as an exception
run_command_timeout_raises(cmd, event) ==
    IF ~parsed[cmd].shlex_ok THEN Raised
    ELSE IF event = "unstartable" THEN Raised
    ELSE IF event = "hangs" THEN Raised
    ELSE Exit(0)

\* executor.py run_command: shlex.split raises on a text it cannot tokenize,
\* create_subprocess_exec raises when the binary cannot be started, a timeout
\* kills the process and returns 124
run_command(cmd, event) ==
    IF ~parsed[cmd].shlex_ok THEN Raised
    ELSE IF event = "unstartable" THEN Raised
    ELSE IF event = "hangs" THEN Exit(124)
    ELSE Exit(0)

\* what became of the call
How(cmd, event) == IF ~parsed[cmd].shlex_ok THEN "untokenized" ELSE event

\* executor.py make_observation: exit_code = max(rc, default=0)
exit_code(results) == IF Len(results) = 0 THEN 0 ELSE Max(Range(results))

\* f"{n}" of an integer
RECURSIVE Decimal(_)
Decimal(n) ==
    IF n < 10 THEN Ch(DigitChars, n + 1)
    ELSE Decimal(n \div 10) \o Ch(DigitChars, (n % 10) + 1)

Str(n) == IF n < 0 THEN "-" \o Decimal(0 - n) ELSE Decimal(n)

\* the line appended to assessment_log.jsonl
AuditLine(block_id, results) ==
    [type |-> "observation", block_id |-> block_id,
     exit_code |-> exit_code(results), n |-> Len(results)]

Ran(via, block_id, idx, cmd) ==
    [via |-> via, block |-> block_id, idx |-> idx, cmd |-> cmd]

\* Faulty variant: the log is opened for writing, not for appending
write_audit(log, line) == << line >>

\* open("a").write(line) on assessment_log.jsonl
append_audit(log, line) == Append(log, line)

\* the session is driven from one terminal, through the REPL and the CLI or
\* through the AI loop: run_ai_loop has not been started
AiIdle == ai.pc = "off" /\ ai.cycles = 0

\* nothing has been proposed, approved or run yet
Untouched ==
    /\ ~blocks_file.exists /\ approved = {} /\ executed = {} /\ audit = <<>>

----------------------------------------------------------------------------
\* repl.py: RUN <cmd>
ReplCommands ==
    { "curl -I https://example.com", "curl --head https://sub.example.com",
      "echo rm -rf /", "ls /etc", "echo \"unterminated" }

ReplRun(cmd) ==
    /\ AiIdle
    /\ Len(audit) < MaxAudit
    /\ LET e == enforce(config, cmd) IN
       IF ~e.allow
       THEN /\ console' = Said("RUN", "Not executed", "")
            /\ UNCHANGED << executed, audit >>
       ELSE \E ev \in Events :
            LET o == run_command(cmd, ev) IN
            /\ executed' = executed \cup {Ran("repl", "ADHOC", 0, cmd)}
            /\ IF o.raised
               THEN /\ console' = SaidRuns("RUN", "raised", << How(cmd, ev) >>)
                    /\ UNCHANGED audit
               ELSE /\ console' = SaidRuns("RUN", "Observation", << How(cmd, ev) >>)
                    /\ audit' = append_audit(audit, AuditLine("ADHOC", << o.rc >>))
    /\ UNCHANGED << parsed, config, command, verdict, callVars, presented, blocks_file, approved,
                    memory, ai >>

----------------------------------------------------------------------------
\* cli.py: propose, approve, exec
Today == "20240101"

BlockId(i) == (("CB-" \o Today) \o "-00") \o Ch(DigitChars, i + 1)

Block(id, commands) == [id |-> id, commands |-> commands]

propose_blocks(scope) ==
    [i \in 1..(Len(scope.domains) + Len(scope.hosts)) |->
        IF i <= Len(scope.domains)
        THEN Block(BlockId(i), DomainCommands(scope.domains[i]))
        ELSE Block(BlockId(i), HostCommands(scope.hosts[i - Len(scope.domains)]))]

\* ids an operator may pass to approve and exec; the last was never proposed
CliBlockIds == { BlockId(1), BlockId(2), BlockId(9) }

CliPropose ==
    /\ AiIdle
    /\ blocks_file' = [exists |-> TRUE, blocks |-> propose_blocks(config.scope)]
    /\ console' = Said("propose", "Saved", "")
    /\ presented' = presented \cup Range(propose_blocks(config.scope))
    /\ UNCHANGED << parsed, config, command, verdict, callVars, approved, executed, audit,
                    memory, ai >>

CliApprove(block_id) ==
    /\ AiIdle
    /\ approved' = approved \cup {block_id}
    /\ console' = Said("approve", "Approved", "")
    /\ UNCHANGED << parsed, config, command, verdict, callVars, presented, blocks_file, executed,
                    audit, memory, ai >>

\* the SystemExit messages of exec are kept up to their first sentence
\* run_all of exec: commands run in order until one raises; outs gives what
\* run_command does with each
RunUntilRaise(commands, outs) ==
    LET bad == { i \in 1..Len(commands) : outs[i].raised }
        n   == IF bad = {} THEN Len(commands) ELSE Min(bad)
    IN  [handed  |-> n,
         raised  |-> bad # {},
         results |-> [i \in 1..(IF bad = {} THEN n ELSE n - 1) |-> outs[i].rc]]

\* Faulty variant: exec does not look for the approval marker
exec_refusal_no_marker(block_id) ==
    IF ~blocks_file.exists THEN "No proposed_blocks.json found."
    ELSE IF \A i \in 1..Len(blocks_file.blocks) : blocks_file.blocks[i].id # block_id
    THEN "Block ID not found."
    ELSE ""

\* exec before the guardrails: the SystemExit message, "" when there is none
exec_refusal(block_id) ==
    IF block_id \notin approved THEN "Block not approved."
    ELSE IF ~blocks_file.exists THEN "No proposed_blocks.json found."
    ELSE IF \A i \in 1..Len(blocks_file.blocks) : blocks_file.blocks[i].id # block_id
    THEN "Block ID not found."
    ELSE ""

\* Faulty variant: exec runs the block without authorizing its commands
exec_unchecked(cfg, b) == {}

\* exec: the commands of the block that enforce does not allow
exec_rejected(cfg, b) ==
    { i \in 1..Len(b.commands) : ~enforce(cfg, b.commands[i]).allow }

CliExec(block_id) ==
    /\ AiIdle
    /\ Len(audit) < MaxAudit
    /\ LET found    == { i \in 1..Len(blocks_file.blocks) :
                            blocks_file.blocks[i].id = block_id }
           refused(b) == exec_rejected(config, b)
           op       == "exec " \o block_id
       IN
       IF exec_refusal(block_id) # ""
       THEN /\ console' = Said(op, "SystemExit", exec_refusal(block_id))
            /\ UNCHANGED << executed, audit >>
       ELSE LET b == blocks_file.blocks[Min(found)] IN
            IF refused(b) # {}
            THEN /\ console' = Said(op, "SystemExit",
                        ((("Blocked/Needs approval: " \o b.commands[Min(refused(b))])
                          \o "\nReason: ")
                          \o enforce(config, b.commands[Min(refused(b))]).reason))
                 /\ UNCHANGED << executed, audit >>
            ELSE \E evs \in [1..Len(b.commands) -> Events] :
                 LET outs == [i \in 1..Len(b.commands) |->
                                 run_command(b.commands[i], evs[i])]
                     r    == RunUntilRaise(b.commands, outs)
                     hows == [i \in 1..r.handed |-> How(b.commands[i], evs[i])]
                 IN
                 /\ executed' = executed \cup
                        { Ran("exec", b.id, i - 1, b.commands[i]) : i \in 1..r.handed }
                 /\ IF r.raised
                    THEN /\ console' = SaidRuns(op, "raised", hows)
                         /\ UNCHANGED audit
                    ELSE /\ console' = SaidRuns(op, "Observation", hows)
                         /\ audit' = append_audit(audit, AuditLine(b.id, r.results))
    /\ UNCHANGED << parsed, config, command, verdict, callVars, presented,
                    blocks_file, approved, memory, ai >>

----------------------------------------------------------------------------
\* ai_loop.py and ai.py: the proposal loop.  A text is what it says and the
\* JSON array of blocks it holds (none when it is not a block array).
Text(say, blocks) == [say |-> say, blocks |-> blocks]

Msg(role, text) == [role |-> role, text |-> text]

\* replies of the proposer to the request for blocks; the first block of a
\* batch comes without id
ProposerTexts ==
    { Text("not json at all", <<>>),
      Text("batch", << Block("", << "curl https://example.com", "rm -rf /" >>) >>),
      Text("batch", << Block("", << "dig sub.example.com" >>),
                       Block("2", << "nmap 10.0.0.1", "echo \"unterminated" >>) >>) }

\* replies of the proposer to the completion question
AckTexts == { "DONE", "CONTINUE", "Not done yet" }

\* models.py SessionConfig.kill_switch, at its default
KILL_SWITCH == "ABORT WSRA NOW"

\* what the operator types at a [y/N] prompt
Answers == { "y", " YES ", "n", "", KILL_SWITCH }

\* Faulty variant: the empty answer takes the prompt's default for a yes
affirmative_by_default(ans) == Lower(Strip(ans)) \in {"y", "yes", ""}

\* Faulty variant: whatever is not a plain no counts as yes
affirmative_unless_no(ans) == Lower(Strip(ans)) \notin {"n", "no"}

affirmative(ans) == Lower(Strip(ans)) \in {"y", "yes"}

\* ai.py _extract_blocks_json
extract_blocks_json(text) == text.blocks

\* Faulty variant: the history is never consulted
history_fallback_none(mem) == <<>>

\* the history fallback of propose_blocks_from_ai: the newest assistant
\* message that holds a block array
history_fallback(mem) ==
    LET hits == { i \in 1..Len(mem) :
                    mem[i].role = "assistant" /\ extract_blocks_json(mem[i].text) # <<>> }
    IN  IF hits = {} THEN <<>> ELSE extract_blocks_json(mem[Max(hits)].text)

\* ai.py _normalize_block_dict over enumerate(data, start=1): a block
\* without id gets f"AI-{idx:03d}"
normalize_block_dict(b, idx) ==
    Block(IF b.id = "" THEN "AI-00" \o Str(idx) ELSE b.id, b.commands)

\* CommandBlock(**clean) raises on a risk that is neither low nor medium
\* once normalized; an item without risk gets "low"
valid_block(b) ==
    ("risk" \in DOMAIN b) =>
        LET risk == Lower(Strip(b.risk)) IN
        StartsWith(risk, "low") \/ StartsWith(risk, "med") \/ risk = "medium"

\* the loop of propose_blocks_from_ai over enumerate(data, start=1): an item
\* that raises is left out
RECURSIVE normalize_from(_, _)
normalize_from(data, idx) ==
    IF idx > Len(data) THEN << >>
    ELSE (IF valid_block(data[idx])
          THEN << normalize_block_dict(data[idx], idx) >> ELSE << >>)
         \o normalize_from(data, idx + 1)

normalize_blocks(data) == normalize_from(data, 1)

\* propose_blocks_from_ai: the request, one retry when no array was found,
\* then the history fallback; calls counts the calls of the proposer
propose_blocks_from_ai(mem, reply, retry) ==
    LET first == extract_blocks_json(reply)
        m     == IF first # <<>>
                 THEN Append(mem, Msg("assistant", reply))
                 ELSE Append(Append(mem, Msg("assistant", reply)),
                             Msg("assistant", retry))
        data  == IF first # <<>> THEN first
                 ELSE IF extract_blocks_json(retry) # <<>>
                 THEN extract_blocks_json(retry)
                 ELSE history_fallback(m)
    IN  [memory |-> m,
         calls  |-> IF first # <<>> THEN 1 ELSE 2,
         blocks |-> normalize_blocks(data)]

\* run_ai_loop up to its first proposal
AiStart ==
    /\ AiIdle
    /\ Untouched
    /\ memory' = Append(memory, Msg("user", Text("Objective", <<>>)))
    /\ ai' = [ai EXCEPT !.pc = "propose"]
    /\ UNCHANGED << parsed, config, command, verdict, callVars, presented, blocks_file, approved,
                    console, executed, audit >>

\* one proposal cycle of run_ai_loop up to `if not blocks`
AiPropose(reply, retry) ==
    /\ ai.pc = "propose"
    /\ ai.cycles < MaxCycles
    /\ LET p == propose_blocks_from_ai(memory, reply, retry)
       IN  /\ memory' = p.memory
           /\ ai' = IF p.blocks = <<>>
                    THEN [ai EXCEPT !.pc = "continue?", !.cycles = @ + 1]
                    ELSE [ai EXCEPT !.pc = "approve?", !.cycles = @ + 1,
                                    !.batch = p.blocks, !.bi = 1]
    /\ UNCHANGED << parsed, config, command, verdict, callVars, presented, blocks_file, approved,
                    console, executed, audit >>

\* the prompt "Continue? [y/N]" after a cycle without blocks
AiContinue(ans) ==
    /\ ai.pc = "continue?"
    /\ ai' = [ai EXCEPT !.pc = IF affirmative(ans) THEN "propose" ELSE "off"]
    /\ console' = Said("ai", "Continue?", ans)
    /\ UNCHANGED << parsed, config, command, verdict, callVars, presented, blocks_file, approved,
                    executed, audit, memory >>

\* the loop `for b in blocks` moves on, or the batch is over
AfterBlock(a) ==
    IF a.bi < Len(a.batch)
    THEN [a EXCEPT !.pc = "approve?", !.bi = @ + 1, !.ci = 0, !.results = <<>>]
    ELSE [a EXCEPT !.pc = "done?", !.ci = 0, !.results = <<>>]

\* execute_block_with_approval up to run_all
AiApprove(ans) ==
    /\ ai.pc = "approve?"
    /\ LET b == ai.batch[ai.bi] IN
       IF ~affirmative(ans)
       THEN /\ memory' = Append(memory,
                   Msg("user", Text(("Approval for " \o b.id) \o ": no", <<>>)))
            /\ ai' = AfterBlock(ai)
       ELSE /\ memory' = Append(memory,
                   Msg("user", Text(("Approval for " \o b.id) \o ": yes", <<>>)))
            /\ ai' = [ai EXCEPT !.pc = "run", !.ci = 1, !.results = <<>>]
    /\ presented' = presented \cup { ai.batch[ai.bi] }
    /\ console' = Said("ai", "Approve this block?", ans)
    /\ UNCHANGED << parsed, config, command, verdict, callVars, blocks_file, approved,
                    executed, audit >>

\* Faulty variant: the approved block overrides everything but the scope
ai_blocked_scope_only(e) ==
    /\ ~e.allow /\ e.needs
    /\ Contains(e.reason, "Out of scope")

\* run_all: the guardrail verdicts an approved block does not override
ai_blocked(e) ==
    /\ ~e.allow /\ e.needs
    /\ \/ Contains(e.reason, "Out of scope")
       \/ Contains(e.reason, "Denied pattern")
       \/ Contains(e.reason, "forbids execution")

\* one iteration of run_all's loop
AiRunCommand ==
    /\ ai.pc = "run"
    /\ ai.ci <= Len(ai.batch[ai.bi].commands)
    /\ LET b == ai.batch[ai.bi]
           c == b.commands[ai.ci]
           e == enforce(config, c)
       IN  IF ai_blocked(e)
           THEN /\ console' = Said("ai", "Blocked by guardrails", "")
                /\ ai' = [ai EXCEPT !.ci = @ + 1]
                /\ UNCHANGED executed
           ELSE \E ev \in Events :
                LET o == run_command(c, ev) IN
                /\ executed' = executed \cup {Ran("ai", b.id, ai.ci - 1, c)}
                /\ IF o.raised
                   THEN /\ console' = SaidRuns("ai", "raised", << How(c, ev) >>)
                        /\ ai' = [ai EXCEPT !.pc = "off"]
                   ELSE /\ console' = SaidRuns("ai", "ran", << How(c, ev) >>)
                        /\ ai' = [ai EXCEPT !.ci = @ + 1,
                                            !.results = Append(@, o.rc)]
    /\ UNCHANGED << parsed, config, command, verdict, callVars, presented, blocks_file, approved,
                    audit, memory >>

\* execute_block_with_approval after run_all: the observation goes to memory
AiObserve ==
    /\ ai.pc = "run"
    /\ ai.ci > Len(ai.batch[ai.bi].commands)
    /\ memory' = Append(memory,
           Msg("user", Text("Executed block " \o ai.batch[ai.bi].id, <<>>)))
    /\ console' = Said("ai", "Observation", "exit=" \o Str(exit_code(ai.results)))
    /\ ai' = AfterBlock(ai)
    /\ UNCHANGED << parsed, config, command, verdict, callVars, presented, blocks_file, approved,
                    executed, audit >>

\* the completion question after a batch
AiAck(ack) ==
    /\ ai.pc = "done?"
    /\ memory' = Append(memory, Msg("assistant", Text(ack, <<>>)))
    /\ ai' = [ai EXCEPT !.pc = IF Contains(Upper(ack), "DONE") THEN "off"
                               ELSE "propose"]
    /\ UNCHANGED << parsed, config, command, verdict, callVars, presented, blocks_file, approved,
                    console, executed, audit >>

----------------------------------------------------------------------------
Init ==
    /\ ParsedInit
    /\ config \in [mode : Modes, scope : SessionScopes]
    /\ command = ""
    /\ verdict = NoVerdict
    /\ SessionInit
    /\ NoCall

Next ==
    \/ \E cmd \in ReplCommands : ReplRun(cmd)
    \/ CliPropose
    \/ \E id \in CliBlockIds : CliApprove(id)
    \/ \E id \in CliBlockIds : CliExec(id)
    \/ AiStart
    \/ \E reply, retry \in ProposerTexts : AiPropose(reply, retry)
    \/ \E ans \in Answers : AiContinue(ans)
    \/ \E ans \in Answers : AiApprove(ans)
    \/ AiRunCommand
    \/ AiObserve
    \/ \E ack \in AckTexts : AiAck(ack)

Spec == Init /\ [][Next]_vars

(***************************************************************************)
(* executor.py: redaction                                                  *)
(***************************************************************************)

\* REDACTIONS: three rules `(?i)(<key>\s*)(\S+)` -> `\1[REDACTED]`, the first
\* alone with \s* after the key, then the rule of three dotted components
REDACTIONS ==
    << [key |-> "authorization:",         ws |-> TRUE,  jwt |-> FALSE],
       [key |-> "password=",              ws |-> FALSE, jwt |-> FALSE],
       [key |-> "aws_secret_access_key=", ws |-> FALSE, jwt |-> FALSE],
       [key |-> "",                       ws |-> FALSE, jwt |-> TRUE] >>

\* the class [A-Za-z0-9-_]
JwtChar == Alpha \cup Digit \cup {"-", "_"}

NoMatch == [end |-> 0, keep |-> 0]

\* the match of a key rule at q: its end and the end of group 1, which is kept
KeyMatch(s, q, rule) ==
    LET k == q + Len(rule.key) IN
    IF k - 1 > Len(s) THEN NoMatch
    ELSE IF LowerCh(Ch(s, q)) # Ch(rule.key, 1) THEN NoMatch
    ELSE IF Lower(SubSeq(s, q, k - 1)) # rule.key THEN NoMatch
    ELSE LET w == IF rule.ws THEN RunEnd(s, k, Whitespace) + 1 ELSE k
             e == RunEnd(s, w, CharsOf(s) \ Whitespace)
         IN  IF e >= w THEN [end |-> e, keep |-> w - 1] ELSE NoMatch

\* the match of [A-Za-z0-9-_]+\.[A-Za-z0-9-_]+\.[A-Za-z0-9-_]+ at q
JwtMatch(s, q) ==
    LET e1 == RunEnd(s, q, JwtChar)
        d1 == e1 >= q /\ e1 + 1 <= Len(s) /\ Ch(s, e1 + 1) = "."
        e2 == IF d1 THEN RunEnd(s, e1 + 2, JwtChar) ELSE 0
        d2 == d1 /\ e2 >= e1 + 2 /\ e2 + 1 <= Len(s) /\ Ch(s, e2 + 1) = "."
        e3 == IF d2 THEN RunEnd(s, e2 + 2, JwtChar) ELSE 0
    IN  IF d2 /\ e3 >= e2 + 2 THEN [end |-> e3, keep |-> q - 1] ELSE NoMatch

Match(s, q, rule) == IF rule.jwt THEN JwtMatch(s, q) ELSE KeyMatch(s, q, rule)

Replacement(rule) == IF rule.jwt THEN "[JWT_REDACTED]" ELSE "[REDACTED]"

\* re.sub(pattern, repl, s, count) from position p on: the leftmost matches,
\* not overlapping; count = 0 replaces them all
RECURSIVE Sub(_, _, _, _)
Sub(rule, s, p, count) ==
    LET starts == { q \in p..Len(s) : Match(s, q, rule).end > 0 } IN
    IF starts = {} THEN From(s, p)
    ELSE LET m == Match(s, Min(starts), rule) IN
         (SubSeq(s, p, m.keep) \o Replacement(rule)) \o
         (IF count = 1 THEN From(s, m.end + 1)
          ELSE Sub(rule, s, m.end + 1, IF count = 0 THEN 0 ELSE count - 1))

\* Faulty variant: each rule rewrites its first match only
redact_first_match(text) ==
    Sub(REDACTIONS[4],
        Sub(REDACTIONS[3],
            Sub(REDACTIONS[2], Sub(REDACTIONS[1], text, 1, 1), 1, 1), 1, 1), 1, 1)

\* _redact: the rules applied in order, each to the result of the one before
redact(text) ==
    Sub(REDACTIONS[4],
        Sub(REDACTIONS[3],
            Sub(REDACTIONS[2], Sub(REDACTIONS[1], text, 1, 0), 1, 0), 1, 0), 1, 0)

\* texts to redact: up to MaxPieces pieces, one after the other
MaxPieces == 3

RedactPieces ==
    { "password=", "Authorization: ", "AWS_SECRET_ACCESS_KEY=", "tok", "a.b.c",
      ".d", " ", "[REDACTED]", "-_.x" }

RECURSIVE RedactTexts(_)
RedactTexts(n) ==
    IF n = 0 THEN {""}
    ELSE RedactTexts(n - 1) \cup
         { t \o piece : t \in RedactTexts(n - 1), piece \in RedactPieces }

RedactInit ==
    /\ ParsedInit
    /\ config = [mode |-> "AUTO_READONLY", scope |-> CHOOSE sc \in SessionScopes : TRUE]
    /\ command = ""
    /\ verdict = NoVerdict
    /\ SessionInit
    /\ arg \in RedactTexts(MaxPieces)
    /\ ret = [done |-> FALSE]

\* _redact applied to a text, and applied again to what it returned
Redact ==
    /\ ~ret.done
    /\ LET once == redact(arg)
       IN  ret' = [done |-> TRUE, once |-> once, twice |-> redact(once)]
    /\ UNCHANGED << parsed, config, command, verdict, sessionVars, arg >>

RedactNext == Redact

SpecRedact == RedactInit /\ [][RedactNext]_vars

(***************************************************************************)
(* executor.py: the observation of a block                                 *)
(***************************************************************************)

\* return codes of a command: success, a failure, the timeout's 124, and
\* -9 of a process ended by SIGKILL (subprocess returncode is -N on POSIX)
ReturnCodes == {0, 2, 124, -9}

MaxResults == 3

RECURSIVE ResultLists(_)
ResultLists(n) ==
    IF n = 0 THEN { <<>> }
    ELSE ResultLists(n - 1) \cup
         { Append(rs, rc) : rs \in ResultLists(n - 1), rc \in ReturnCodes }

ObserveInit ==
    /\ ParsedInit
    /\ config = [mode |-> "AUTO_READONLY", scope |-> CHOOSE sc \in SessionScopes : TRUE]
    /\ command = ""
    /\ verdict = NoVerdict
    /\ SessionInit
    /\ arg \in ResultLists(MaxResults)
    /\ ret = [done |-> FALSE]

\* make_observation over the return codes of a block's results
Observe ==
    /\ ~ret.done
    /\ ret' = [done |-> TRUE, exit_code |-> exit_code(arg)]
    /\ UNCHANGED << parsed, config, command, verdict, sessionVars, arg >>

ObserveNext == Observe

SpecObserve == ObserveInit /\ [][ObserveNext]_vars

(***************************************************************************)
(* executor.py and run_all: the processes of a block                       *)
(***************************************************************************)

\* commands of a block, each given by what happens to its process
MaxCommands == 3

RECURSIVE EventLists(_)
EventLists(n) ==
    IF n = 0 THEN { <<>> }
    ELSE EventLists(n - 1) \cup
         { Append(evs, ev) : evs \in EventLists(n - 1), ev \in Events }

\* run_all at its first command: nothing started, no process alive
RunInit ==
    /\ ParsedInit
    /\ config = [mode |-> "AUTO_READONLY", scope |-> CHOOSE sc \in SessionScopes : TRUE]
    /\ command = ""
    /\ verdict = NoVerdict
    /\ SessionInit
    /\ arg \in EventLists(MaxCommands) \ { <<>> }
    /\ ret = [pc |-> "spawn", idx |-> 1, started |-> <<>>, alive |-> {},
              killed |-> {}, results |-> <<>>]

\* the loop of run_all goes to the next command or returns
NextCommand(r) ==
    [r EXCEPT !.idx = @ + 1, !.pc = IF r.idx < Len(arg) THEN "spawn" ELSE "returned"]

\* run_command: create_subprocess_exec starts the process or raises
CreateSubprocess ==
    /\ ret.pc = "spawn"
    /\ ret' = IF arg[ret.idx] = "unstartable"
              THEN [ret EXCEPT !.pc = "raised"]
              ELSE [ret EXCEPT !.pc = "communicate",
                               !.started = Append(@, ret.idx),
                               !.alive = @ \cup {ret.idx}]
    /\ UNCHANGED << parsed, config, command, verdict, sessionVars, arg >>

\* run_command: proc.communicate() returns within the timeout, the process
\* has exited
CommunicateReturns ==
    /\ ret.pc = "communicate"
    /\ arg[ret.idx] = "exits"
    /\ ret' = NextCommand([ret EXCEPT !.alive = @ \ {ret.idx},
                                      !.results = Append(@, 0)])
    /\ UNCHANGED << parsed, config, command, verdict, sessionVars, arg >>

\* run_command: wait_for raises TimeoutError; proc.kill() sends SIGKILL and
\* run_command returns 124 without waiting for the process
TimeoutKill ==
    /\ ret.pc = "communicate"
    /\ arg[ret.idx] = "hangs"
    /\ ret' = NextCommand([ret EXCEPT !.killed = @ \cup {ret.idx},
                                      !.results = Append(@, 124)])
    /\ UNCHANGED << parsed, config, command, verdict, sessionVars, arg >>

\* the kernel ends a process that was sent SIGKILL, at a time of its own
KilledProcessEnds ==
    /\ \E i \in ret.killed \cap ret.alive :
           ret' = [ret EXCEPT !.alive = @ \ {i}]
    /\ UNCHANGED << parsed, config, command, verdict, sessionVars, arg >>

RunNext ==
    \/ CreateSubprocess
    \/ CommunicateReturns
    \/ TimeoutKill
    \/ KilledProcessEnds

SpecRun == RunInit /\ [][RunNext]_vars

(***************************************************************************)
(* ai.py: propose_blocks_from_ai as a function of the memory and replies   *)
(***************************************************************************)

\* replies of the proposer: those of the session and a JSON array whose only
\* block fails the validation of CommandBlock
ReplyTexts ==
    ProposerTexts \cup
    { Text("batch", << [id |-> "7", commands |-> << "id" >>, risk |-> "high"] >>) }

\* messages the memory store may hold before the call
HistoryMessages ==
    { Msg("assistant", t) : t \in ReplyTexts } \cup
    { Msg("user", Text("Objective", << >>)),
      Msg("user", Text("batch", << Block("5", << "whoami" >>) >>)) }

MaxHistory == 2

RECURSIVE Histories(_)
Histories(n) ==
    IF n = 0 THEN { << >> }
    ELSE Histories(n - 1) \cup
         { Append(h, m) : h \in Histories(n - 1), m \in HistoryMessages }

ProposeInit ==
    /\ ParsedInit
    /\ config = [mode |-> "AUTO_READONLY", scope |-> CHOOSE sc \in SessionScopes : TRUE]
    /\ command = ""
    /\ verdict = NoVerdict
    /\ SessionInit
    /\ arg \in [history : Histories(MaxHistory), reply : ReplyTexts, retry : ReplyTexts]
    /\ ret = [done |-> FALSE]

Propose ==
    /\ ~ret.done
    /\ LET p == propose_blocks_from_ai(arg.history, arg.reply, arg.retry)
       IN  ret' = [done |-> TRUE, calls |-> p.calls, blocks |-> p.blocks,
                   memory |-> p.memory]
    /\ UNCHANGED << parsed, config, command, verdict, sessionVars, arg >>

ProposeNext == Propose

SpecPropose == ProposeInit /\ [][ProposeNext]_vars

(***************************************************************************)
(* session.py and models.py: loading session.json                          *)
(***************************************************************************)

\* JSON values of session.json: a key may be absent, or hold a string, a
\* number or an object
Absent    == [t |-> "absent"]
JStr(v)   == [t |-> "str", v |-> v]
JNum(v)   == [t |-> "num", v |-> v]
JObj(v)   == [t |-> "obj", v |-> v]

\* the contents session.json may have: the keys of SessionConfig, of the
\* scope its paths and of the rules of engagement the rate limit
SessionFiles ==
    [authorization_doc  : { Absent, JStr("AUTHORIZED TEST"), JNum(7) },
     scope              : { Absent, JStr("example.com"),
                            JObj([paths |-> Absent]),
                            JObj([paths |-> JObj(<< "/w" >>)]) },
     rate_limit_per_sec : { Absent, JNum(5), JStr("5"), JStr("fast") },
     mode               : { Absent, JNum(1), JStr("ROOT") } \cup { JStr(m) : m \in Modes },
     kill_switch        : { Absent, JStr("STOP"), JNum(0) }]

\* pydantic reads a string of digits as an int
IsDigits(str) == str # "" /\ CharsOf(str) \subseteq Digit

RECURSIVE ParseInt(_)
ParseInt(str) ==
    IF Len(str) = 0 THEN 0
    ELSE 10 * ParseInt(SubSeq(str, 1, Len(str) - 1))
         + (CHOOSE d \in 0..9 : Ch(DigitChars, d + 1) = Ch(str, Len(str)))

\* SessionConfig(**data): the fields that make the validation fail
validation_errors(data) ==
    { f \in {"authorization_doc"} : data.authorization_doc.t # "str" }
    \cup { f \in {"scope"} : data.scope.t # "obj" }
    \cup { f \in {"rate_limit_per_sec"} :
             \/ data.rate_limit_per_sec.t = "obj"
             \/ /\ data.rate_limit_per_sec.t = "str"
                /\ ~IsDigits(data.rate_limit_per_sec.v) }
    \cup { f \in {"mode"} :
             \/ data.mode.t \in {"num", "obj"}
             \/ data.mode.t = "str" /\ data.mode.v \notin Modes }
    \cup { f \in {"kill_switch"} : data.kill_switch.t \in {"num", "obj"} }

\* SessionConfig(**data) when the validation passes: absent fields take the
\* defaults of models.py, a string of digits becomes the int
SessionConfig(data) ==
    [authorization_doc  |-> data.authorization_doc.v,
     paths              |-> IF data.scope.v.paths.t = "absent" THEN << "." >>
                            ELSE data.scope.v.paths.v,
     rate_limit_per_sec |-> IF data.rate_limit_per_sec.t = "absent" THEN Absent
                            ELSE IF data.rate_limit_per_sec.t = "str"
                            THEN JNum(ParseInt(data.rate_limit_per_sec.v))
                            ELSE data.rate_limit_per_sec,
     mode               |-> IF data.mode.t = "absent" THEN "AUTO_READONLY"
                            ELSE data.mode.v,
     kill_switch        |-> IF data.kill_switch.t = "absent" THEN KILL_SWITCH
                            ELSE data.kill_switch.v]

\* load_or_init on an existing session.json
load_or_init(data) ==
    IF validation_errors(data) # {}
    THEN [done |-> TRUE, rejected |-> TRUE]
    ELSE [done |-> TRUE, rejected |-> FALSE, config |-> SessionConfig(data)]

LoadInit ==
    /\ ParsedInit
    /\ config = [mode |-> "AUTO_READONLY", scope |-> CHOOSE sc \in SessionScopes : TRUE]
    /\ command = ""
    /\ verdict = NoVerdict
    /\ SessionInit
    /\ arg \in SessionFiles
    /\ ret = [done |-> FALSE]

Load ==
    /\ ~ret.done
    /\ ret' = load_or_init(arg)
    /\ UNCHANGED << parsed, config, command, verdict, sessionVars, arg >>

LoadNext == Load

SpecLoad == LoadInit /\ [][LoadNext]_vars

(***************************************************************************)
(* SpecExtract: ai.py _extract_blocks_json on the text of a reply          *)
(*                                                                         *)
(* A reply is a sequence of lexical pieces separated by white space: the   *)
(* JSON punctuation, a block object, a JSON string that holds a closing    *)
(* bracket, a word of prose and the two fence markers.  A JSON value is    *)
(* the sequence of the pieces of its text.  The fence of three backticks   *)
(* is written ~~~ here.                                                    *)
(***************************************************************************)
BlockObject  == "{\"id\": \"1\"}"
BracketStr   == "\"a]b\""
\* what is left of BracketStr when a text is cut after its bracket
CutStr       == "\"a]"
BlocksKey    == "{\"blocks\":"
FenceJson    == "~~~json"
Fence        == "~~~"
EmptyList    == << "[", "]" >>

\* json.loads: the index after the value that starts at piece i, 0 when
\* there is no value there
RECURSIVE json_value_end(_, _)
RECURSIVE json_items_end(_, _)
json_value_end(toks, i) ==
    IF i > Len(toks) THEN 0
    ELSE IF toks[i] \in {BlockObject, BracketStr} THEN i + 1
    ELSE IF toks[i] = "[" THEN
        IF i + 1 <= Len(toks) /\ toks[i + 1] = "]" THEN i + 2
        ELSE json_items_end(toks, i + 1)
    ELSE IF toks[i] = BlocksKey THEN
        LET j == json_value_end(toks, i + 1)
        IN  IF j # 0 /\ j <= Len(toks) /\ toks[j] = "}" THEN j + 1 ELSE 0
    ELSE 0

json_items_end(toks, i) ==
    LET j == json_value_end(toks, i)
    IN  IF j = 0 \/ j > Len(toks) THEN 0
        ELSE IF toks[j] = "]" THEN j + 1
        ELSE IF toks[j] = "," THEN json_items_end(toks, j + 1)
        ELSE 0

\* json.loads(text) does not raise: the text is one JSON value
json_loads_ok(toks) == Len(toks) > 0 /\ json_value_end(toks, 1) = Len(toks) + 1

NoList == [some |-> FALSE, val |-> << >>]

\* the body of each `try`: json.loads, the unwrapping of {"blocks": ...},
\* and isinstance(data, list)
parse_list(toks) ==
    IF ~json_loads_ok(toks) THEN NoList
    ELSE LET data == IF toks[1] = BlocksKey THEN SubSeq(toks, 2, Len(toks) - 1)
                     ELSE toks
         IN  IF data[1] = "[" THEN [some |-> TRUE, val |-> data] ELSE NoList

\* 1) the direct parse
direct_parse(toks) == parse_list(toks)

\* 2) re.search of the fence pattern: the first ~~~json and the nearest
\* fence after it enclose group(1)
fenced_parse(toks) ==
    LET opens == { i \in 1..Len(toks) : toks[i] = FenceJson } IN
    IF opens = {} THEN NoList
    ELSE LET i      == Min(opens)
             closes == { j \in (i + 1)..Len(toks) : toks[j] \in {FenceJson, Fence} }
         IN  IF closes = {} THEN NoList
             ELSE parse_list(SubSeq(toks, i + 1, Min(closes) - 1))

\* what the characters of a piece add to `depth`
bracket_weight(tok) ==
    IF tok = "[" THEN 1 ELSE IF tok \in {"]", BracketStr} THEN -1 ELSE 0

RECURSIVE depth_after(_, _, _)
depth_after(toks, start, i) ==
    IF i < start THEN 0
    ELSE depth_after(toks, start, i - 1) + bracket_weight(toks[i])

\* 3) from the first "[" to the bracket that brings depth back to 0; a
\* candidate that does not parse ends the loop (`break`)
bracket_scan(toks) ==
    LET opens == { i \in 1..Len(toks) : toks[i] = "[" } IN
    IF opens = {} THEN NoList
    ELSE LET start == Min(opens)
             ends  == { i \in start..Len(toks) : depth_after(toks, start, i) = 0 }
         IN  IF ends = {} THEN NoList
             ELSE LET i == Min(ends)
                      candidate == SubSeq(toks, start, i - 1) \o
                                   << IF toks[i] = BracketStr THEN CutStr ELSE toks[i] >>
                  IN  IF json_loads_ok(candidate)
                      THEN [some |-> TRUE, val |-> candidate] ELSE NoList

\* Faulty variant: a fence whose content is no list ends the search
extract_blocks_fence_aborts(toks) ==
    IF direct_parse(toks).some THEN direct_parse(toks).val
    ELSE IF \E i \in 1..Len(toks) : toks[i] = FenceJson
    THEN (IF fenced_parse(toks).some THEN fenced_parse(toks).val ELSE EmptyList)
    ELSE IF bracket_scan(toks).some THEN bracket_scan(toks).val
    ELSE EmptyList

\* _extract_blocks_json
extract_blocks_json_of(toks) ==
    IF direct_parse(toks).some THEN direct_parse(toks).val
    ELSE IF fenced_parse(toks).some THEN fenced_parse(toks).val
    ELSE IF bracket_scan(toks).some THEN bracket_scan(toks).val
    ELSE EmptyList

\* the pieces a reply is put together from, and how many of them
ReplyPieces ==
    { << "Plan:" >>, << "[", BlockObject, ",", BlockObject, "]" >>, << "[" >>,
      << "]" >>, << FenceJson >>, << Fence >>, << BlocksKey >>, << "}" >>,
      << BracketStr >>, << BlockObject >> }

MaxParts == 4

RECURSIVE Flatten(_)
Flatten(q) == IF q = << >> THEN << >> ELSE Head(q) \o Flatten(Tail(q))

ReplyTokens ==
    { Flatten(q) : q \in UNION { [1..n -> ReplyPieces] : n \in 0..MaxParts } }

ExtractInit ==
    /\ ParsedInit
    /\ config = [mode |-> "AUTO_READONLY", scope |-> CHOOSE sc \in SessionScopes : TRUE]
    /\ command = ""
    /\ verdict = NoVerdict
    /\ SessionInit
    /\ arg \in ReplyTokens
    /\ ret = [done |-> FALSE]

Extract ==
    /\ ~ret.done
    /\ ret' = [done |-> TRUE, blocks |-> extract_blocks_json_of(arg)]
    /\ UNCHANGED << parsed, config, command, verdict, sessionVars, arg >>

SpecExtract == ExtractInit /\ [][Extract]_vars

(***************************************************************************)
(* SpecKeyLines: the key lines make_observation takes from the output      *)
(***************************************************************************)
\* combined.splitlines() for an output whose only line boundary is "\n": the
\* k-th line ends before the k-th newline, the last one at the end of the text
splitlines(text) ==
    LET nl     == { i \in 1..Len(text) : Ch(text, i) = "\n" }
        n      == Cardinality(nl)
        pos(k) == IF k = 0 THEN 0
                  ELSE CHOOSE i \in nl : Cardinality({ j \in nl : j <= i }) = k
        count  == IF Len(text) = 0 THEN 0
                  ELSE IF Ch(text, Len(text)) = "\n" THEN n ELSE n + 1
    IN  [k \in 1..count |->
            SubSeq(text, pos(k - 1) + 1, IF k <= n THEN pos(k) - 1 ELSE Len(text))]

\* the slice bounds of `[:20]` and `[-10:]`
HeadLines == 20
TailLines == 10

\* q[:n] and q[-n:] of Python
FirstOf(q, n) == SubSeq(q, 1, IF Len(q) < n THEN Len(q) ELSE n)
LastOf(q, n)  == SubSeq(q, IF Len(q) < n THEN 1 ELSE Len(q) - n + 1, Len(q))

\* Faulty variant: the tail is left out when the head holds every line
key_lines_tail_when_long(combined) ==
    LET lines == splitlines(combined) IN
    IF Len(combined) = 0 THEN << >>
    ELSE IF Len(lines) <= HeadLines THEN lines
    ELSE (FirstOf(lines, HeadLines) \o << "..." >>) \o LastOf(lines, TailLines)

\* key_lines of make_observation
key_lines(combined) ==
    IF Len(combined) = 0 THEN << >>
    ELSE (FirstOf(splitlines(combined), HeadLines) \o << "..." >>)
             \o LastOf(splitlines(combined), TailLines)

\* the outputs: n lines, numbered, all alike or all empty, the last one with
\* or without its newline
MaxLines == 35

RECURSIVE OutputText(_, _)
OutputText(n, kind) ==
    IF n = 0 THEN ""
    ELSE (OutputText(n - 1, kind) \o
            (IF kind = "numbered" THEN "L" \o Str(n)
             ELSE IF kind = "alike" THEN "ok" ELSE "")) \o "\n"

Outputs ==
    { OutputText(n, kind) : n \in 0..MaxLines, kind \in {"numbered", "alike", "empty"} }
    \cup { OutputText(n, kind) \o "end" : n \in 0..MaxLines, kind \in {"numbered", "alike"} }

KeyLinesInit ==
    /\ ParsedInit
    /\ config = [mode |-> "AUTO_READONLY", scope |-> CHOOSE sc \in SessionScopes : TRUE]
    /\ command = ""
    /\ verdict = NoVerdict
    /\ SessionInit
    /\ arg \in Outputs
    /\ ret = [done |-> FALSE]

KeyLines ==
    /\ ~ret.done
    /\ ret' = [done |-> TRUE, key_lines |-> key_lines(arg)]
    /\ UNCHANGED << parsed, config, command, verdict, sessionVars, arg >>

SpecKeyLines == KeyLinesInit /\ [][KeyLines]_vars

(***************************************************************************)
(* SpecLogs: the per-command log files under the session's logs directory  *)
(*                                                                         *)
(* ret.files is the logs directory, a set of [name, text]; ret.written is  *)
(* the history of what run_command wrote, ret.n the number of REPL RUN     *)
(* commands and blocks executed so far.                                    *)
(***************************************************************************)
\* logs_dir / f"{block_id}_{idx}.out" (or .err)
LogName(block_id, idx, ext) == ((block_id \o "_") \o Str(idx)) \o ext

\* the two files run_command writes for a command whose process exits in
\* time; the captured output is taken to depend on the command only
log_files(block_id, idx, cmd) ==
    { [name |-> LogName(block_id, idx, ".out"), text |-> "stdout of " \o cmd],
      [name |-> LogName(block_id, idx, ".err"), text |-> "stderr of " \o cmd] }

\* Path.write_text: the file is created or truncated
write_text(files, new) ==
    { f \in files : \A g \in new : g.name # f.name } \cup new

\* a loop `for idx, c in enumerate(commands)` around run_command: the
\* commands skipped are not handed over, a raise ends the loop, and a
\* command writes its files when its process exits in time
loop_writes(block_id, commands, evs, skipped) ==
    LET ran  == { i \in 1..Len(commands) : i \notin skipped }
        bad  == { i \in ran : run_command(commands[i], evs[i]).raised }
        wrote == { i \in ran : /\ \A k \in bad : i < k
                               /\ How(commands[i], evs[i]) = "exits" }
    IN  UNION { log_files(block_id, i - 1, commands[i]) : i \in wrote }

MaxRuns == 3

LogsInit ==
    /\ ParsedInit
    /\ config \in [mode : {"AUTO_READONLY"}, scope : SessionScopes]
    /\ command = ""
    /\ verdict = NoVerdict
    /\ SessionInit
    /\ arg = ""
    /\ ret = [n |-> 0, files |-> {}, written |-> {}]

Logged(new) ==
    /\ ret' = [n |-> ret.n + 1, files |-> write_text(ret.files, new),
               written |-> ret.written \cup new]
    /\ UNCHANGED << parsed, config, command, verdict, sessionVars, arg >>

\* repl.py _exec_single: block_id "ADHOC", idx 0
LogsReplRun(cmd, ev) ==
    /\ ret.n < MaxRuns
    /\ enforce(config, cmd).allow
    /\ Logged(loop_writes("ADHOC", << cmd >>, << ev >>, {}))

\* cli.py exec of an approved block of proposed_blocks.json
LogsCliExec(b, evs) ==
    /\ ret.n < MaxRuns
    /\ exec_rejected(config, b) = {}
    /\ Logged(loop_writes(b.id, b.commands, evs, {}))

\* ai_loop.py execute_block_with_approval of an approved block of a batch
LogsAiBlock(b, evs) ==
    /\ ret.n < MaxRuns
    /\ Logged(loop_writes(b.id, b.commands, evs,
                 { i \in 1..Len(b.commands) : ai_blocked(enforce(config, b.commands[i])) }))

\* the batches of the AI loop: the replies of the session and one more whose
\* first block comes without id
LogBatches ==
    ProposerTexts \cup { Text("batch", << Block("", << "whoami" >>) >>) }

LogsNext ==
    \/ \E cmd \in ReplCommands, ev \in Events : LogsReplRun(cmd, ev)
    \/ \E b \in Range(propose_blocks(config.scope)) :
           \E evs \in [1..Len(b.commands) -> Events] : LogsCliExec(b, evs)
    \/ \E t \in LogBatches :
           \E b \in Range(normalize_blocks(extract_blocks_json(t))) :
               \E evs \in [1..Len(b.commands) -> Events] : LogsAiBlock(b, evs)

SpecLogs == LogsInit /\ [][LogsNext]_vars

(***************************************************************************)
(* SpecShell: hacking_ai/tools/shell.py, ShellTool.run                     *)
(***************************************************************************)
\* the pieces the DANGEROUS_PATTERNS are made of: a literal text, \b, .*,
\* \s*, an optional literal and \w+
Lit(v)   == [t |-> "lit", v |-> v]
Opt(v)   == [t |-> "opt", v |-> v]
WordEdge == [t |-> "\\b", v |-> ""]
AnyStar  == [t |-> ".*", v |-> ""]
SpStar   == [t |-> "\\s*", v |-> ""]
WordPlus == [t |-> "\\w+", v |-> ""]

IsWordAt(text, i) == i >= 1 /\ i <= Len(text) /\ Ch(text, i) \in WordChar

\* the positions a piece can end at when it starts after the p-th character
ReEnds(piece, text, p) ==
    LET litEnd == IF p + Len(piece.v) > Len(text) THEN {}
                  ELSE IF SubSeq(text, p + 1, p + Len(piece.v)) = piece.v
                  THEN {p + Len(piece.v)} ELSE {}
    IN  IF piece.t = "lit" THEN litEnd
        ELSE IF piece.t = "opt" THEN {p} \cup litEnd
        ELSE IF piece.t = "\\b"
        THEN (IF WB(text, p) THEN {p} ELSE {})
        ELSE IF piece.t = ".*"
        THEN { q \in p..Len(text) : \A k \in (p + 1)..q : Ch(text, k) # "\n" }
        ELSE IF piece.t = "\\s*"
        THEN { q \in p..Len(text) : \A k \in (p + 1)..q : Ch(text, k) \in Whitespace }
        ELSE { q \in (p + 1)..Len(text) : \A k \in (p + 1)..q : IsWordAt(text, k) }

\* the positions the pieces from the k-th on can end at, started at one of ps
RECURSIVE ReSeqEnds(_, _, _, _)
ReSeqEnds(pieces, k, text, ps) ==
    IF k > Len(pieces) \/ ps = {} THEN ps
    ELSE ReSeqEnds(pieces, k + 1, text,
                   UNION { ReEnds(pieces[k], text, p) : p \in ps })

\* re.search of a pattern given by its alternatives
re_search(alternatives, text) ==
    \E alt \in alternatives : ReSeqEnds(alt, 1, text, 0..Len(text)) # {}

SAFE_PREFIXES ==
    << "whoami", "id", "uname", "ls", "dir", "pwd", "cat ", "type ", "echo ",
       "env", "printenv", "ifconfig", "ip ", "ss ", "netstat ", "ps ",
       "tasklist", "sudo -l" >>

DANGEROUS_PATTERNS ==
    << { << WordEdge, Lit("rm"), WordEdge, AnyStar, Lit("-rf") >> },
       { << WordEdge, Lit("dd"), WordEdge, AnyStar, WordEdge, Lit("of=") >>, << WordEdge, Lit("to=") >> },
       { << WordEdge, Lit("mkfs"), WordEdge >> },
       { << WordEdge, Lit("mount"), WordEdge, AnyStar, Lit("-o remount,rw") >> },
       { << WordEdge, Lit("chmod"), WordEdge, AnyStar, Lit(" 777"), WordEdge >> },
       { << WordEdge, Lit("chown"), WordEdge, AnyStar, Lit(" root:"), WordPlus >> },
       { << WordEdge, Lit("shutdown"), WordEdge >>, << WordEdge, Lit("reboot"), WordEdge >>,
         << WordEdge, Lit("halt"), WordEdge >> },
       { << WordEdge, Lit("poweroff"), WordEdge >> },
       { << WordEdge, Lit(":"), AnyStar, Lit("(){"), AnyStar, Lit(":"), AnyStar,
            Lit("|:"), AnyStar, Lit(";}"), SpStar, Opt(";"), SpStar, Lit(":"),
            SpStar, Lit("|:"), SpStar, Lit("&"), SpStar, Lit("}") >> },
       { << Lit("curl"), WordEdge, AnyStar, Lit("|"), SpStar, Lit("sh"), WordEdge >>,
         << Lit("wget"), WordEdge, AnyStar, Lit("|"), SpStar, Lit("sh"), WordEdge >> },
       { << WordEdge, Lit("format-volume"), WordEdge >>,
         << WordEdge, Lit("remove-item"), WordEdge, AnyStar, Lit("-recurse"), SpStar,
            Lit("-force") >> } >>

\* the loop over DANGEROUS_PATTERNS on the lower-cased command
matches_dangerous(cmd) ==
    \E i \in 1..Len(DANGEROUS_PATTERNS) : re_search(DANGEROUS_PATTERNS[i], Lower(cmd))

\* ShellTool._looks_dangerous
looks_dangerous(cmd) ==
    IF \E i \in 1..Len(SAFE_PREFIXES) : StartsWith(cmd, SAFE_PREFIXES[i])
    THEN FALSE
    ELSE matches_dangerous(cmd)

\* what input() gives at the prompt: a line, or EOFError
Line(text) == [eof |-> FALSE, text |-> text]
EndOfInput == [eof |-> TRUE, text |-> ""]

\* ShellTool._confirm
confirm(auto_confirm, answer) ==
    IF auto_confirm THEN TRUE
    ELSE IF answer.eof THEN FALSE
    ELSE Lower(Strip(answer.text)) \in {"y", "yes"}

\* ShellTool._execute: the shell runs the command; the result is the one of
\* the process, of the timeout or of the exception
execute(cmd, event) ==
    IF event = "exits"
    THEN [executed |-> TRUE, return_code |-> 0, output |-> "output of " \o cmd]
    ELSE IF event = "hangs"
    THEN [executed |-> TRUE, return_code |-> 124, output |-> "Command timed out"]
    ELSE [executed |-> FALSE, return_code |-> 1, output |-> "Execution error"]

\* ShellTool.run
shell_run(cmd, auto_confirm, answer, event) ==
    LET stripped == Strip(cmd) IN
    IF Len(stripped) = 0
    THEN [executed |-> FALSE, return_code |-> 1, output |-> "Empty command"]
    ELSE IF looks_dangerous(stripped) /\ ~confirm(auto_confirm, answer)
    THEN [executed |-> FALSE, return_code |-> 2,
          output |-> "Command rejected by safety policy"]
    ELSE execute(stripped, event)

ShellCommands ==
    { "", "  ", "git status", "ls -la", "cat /etc/passwd", "id",
      "rm -rf /tmp/x", " rm -rf / ", "RM -RF /", "rm -r -f /tmp/x",
      "ls; rm -rf /", "echo hi; reboot", "idle; mkfs /dev/sda",
      "sudo reboot", "dd if=a of=/dev/sda", "curl http://x/i | sh",
      "chmod 777 /", "chown x root:root", "x:(){ :|:;}; : |: & }",
      "uname -a && shutdown now" }

ShellInit ==
    /\ ParsedInit
    /\ config = [mode |-> "AUTO_READONLY", scope |-> CHOOSE sc \in SessionScopes : TRUE]
    /\ command = ""
    /\ verdict = NoVerdict
    /\ SessionInit
    /\ arg \in [command      : ShellCommands,
                auto_confirm : BOOLEAN,
                answer       : { Line("y"), Line(" YES "), Line("n"), Line(""), EndOfInput },
                event        : Events]
    /\ ret = [done |-> FALSE]

ShellRun ==
    /\ ~ret.done
    /\ ret' = [done |-> TRUE,
               result |-> shell_run(arg.command, arg.auto_confirm, arg.answer, arg.event)]
    /\ UNCHANGED << parsed, config, command, verdict, sessionVars, arg >>

SpecShell == ShellInit /\ [][ShellRun]_vars

(***************************************************************************)
(* Properties of the guardrails (SpecGuard)                                *)
(***************************************************************************)
Targets  == parsed[command].targets
AbsPaths == parsed[command].paths
DenyHits == parsed[command].deny_hits
Domains  == Range(config.scope.domains)
Hosts    == Range(config.scope.hosts)
Denylist == Range(config.scope.out_of_scope)

\* C1: a command whose lower-cased text contains a deny pattern is classified
\* medium and not read-only, with a reason naming a matched pattern, whatever
\* its leading token is.
C1_DenyPatternForcesMedium ==
    (verdict.done /\ DenyHits # {}) =>
        /\ verdict.class.risk = "medium"
        /\ ~verdict.class.read_only_ok
        /\ \E pat \in DenyHits : verdict.class.why = "Denied pattern: " \o pat

C1_Witness ==
    /\ verdict.done
    /\ command = "curl -I https://example.com/reboot"
    /\ parsed[command].tokens[1] \in LOW_READONLY_BINARIES
    /\ verdict.class.why = "Denied pattern: reboot"

\* C3: in PLAN_ONLY and in SIMULATE the authorizer never allows execution,
\* for any command and any scope.
C3_PlanAndSimulateNeverAllow ==
    (verdict.done /\ config.mode \in {"PLAN_ONLY", "SIMULATE"}) =>
        ~verdict.enforce.allow

C3_Witness ==
    /\ verdict.done
    /\ config.mode = "SIMULATE"
    /\ verdict.scope.ok
    /\ verdict.class.risk = "low"
    /\ ~verdict.enforce.allow

\* C4: a command the scope resolver rejects is refused in every mode, needs
\* approval, and the reason is the scope reason prefixed with "Out of scope: ".
C4_OutOfScopeRefused ==
    (verdict.done /\ ~verdict.scope.ok) =>
        /\ ~verdict.enforce.allow
        /\ verdict.enforce.needs
        /\ verdict.enforce.reason = "Out of scope: " \o verdict.scope.reason

C4_Witness ==
    /\ verdict.done
    /\ ~verdict.scope.ok
    /\ config.mode = "PLAN_ONLY"
    /\ StartsWith(verdict.enforce.reason, "Out of scope: ")

\* C5: in EXECUTE_WITH_APPROVAL an in-scope command is never allowed on its
\* own: allow is false and approval is needed, even for a low-risk command.
C5_ApprovalModeAlwaysAsks ==
    (verdict.done /\ config.mode = "EXECUTE_WITH_APPROVAL" /\ verdict.scope.ok) =>
        /\ ~verdict.enforce.allow
        /\ verdict.enforce.needs

C5_Witness ==
    /\ verdict.done
    /\ config.mode = "EXECUTE_WITH_APPROVAL"
    /\ verdict.scope.ok
    /\ verdict.class.risk = "low"
    /\ verdict.enforce.needs

\* C6: in AUTO_READONLY an in-scope command is allowed exactly when it is
\* classified low and read-only; otherwise it needs approval.
C6_AutoReadonlyAllowsOnlyLow ==
    (verdict.done /\ config.mode = "AUTO_READONLY" /\ verdict.scope.ok) =>
        /\ verdict.enforce.allow <=>
               (verdict.class.risk = "low" /\ verdict.class.read_only_ok)
        /\ verdict.enforce.needs <=> ~verdict.enforce.allow

C6_Witness ==
    /\ verdict.done
    /\ config.mode = "AUTO_READONLY"
    /\ verdict.scope.ok
    /\ verdict.class.risk = "medium"
    /\ DenyHits = {}
    /\ ~verdict.enforce.allow

\* the arguments of the command include one of the flags, as its own token
\* or, for a one-letter flag, inside a cluster of short options
HasFlag(tokens, flags) ==
    \E i \in 2..Len(tokens) :
        \/ tokens[i] \in flags
        \/ /\ StartsWith(tokens[i], "-") /\ ~StartsWith(tokens[i], "--")
           /\ \E f \in flags : Len(f) = 2 /\ Contains(tokens[i], From(f, 2))

HeadOf(c) == IF Len(parsed[c].tokens) > 0 THEN parsed[c].tokens[1] ELSE ""

\* C7: a curl command is classified low/read-only only if its arguments
\* include -I or --head, a wget command only if they include --spider; without
\* the flag the command is medium and not read-only.
C7_HeadOnlyIsLow ==
    verdict.done =>
        /\ (HeadOf(command) = "curl" /\ verdict.class.risk = "low")
               => HasFlag(parsed[command].tokens, {"-I", "--head"})
        /\ (HeadOf(command) = "wget" /\ verdict.class.risk = "low")
               => HasFlag(parsed[command].tokens, {"--spider"})

\* C8 as stated: a command containing `rm -rf /` is refused with a reason that
\* names the matched deny pattern, in every mode and for every scope.
C8_ReasonAlwaysNamesPattern ==
    (verdict.done /\ Contains(command, "rm -rf /")) =>
        /\ ~verdict.enforce.allow
        /\ Contains(verdict.enforce.reason, "rm -rf")

\* C8: a command containing `rm -rf /` is refused in every mode and for every
\* scope; the reason is the scope reason when the command is out of scope,
\* else the mode reason in PLAN_ONLY and SIMULATE, else it names the pattern
\* (with a mode that is none of the four it is "Unknown mode").
C8_DenyPatternAlwaysRefused ==
    (verdict.done /\ Contains(command, "rm -rf /")) =>
        /\ ~verdict.enforce.allow
        /\ IF ~verdict.scope.ok
           THEN verdict.enforce.reason = "Out of scope: " \o verdict.scope.reason
           ELSE IF config.mode \in {"PLAN_ONLY", "SIMULATE"}
           THEN verdict.enforce.reason = ("Mode=" \o config.mode) \o " forbids execution"
           ELSE IF config.mode \in {"AUTO_READONLY", "EXECUTE_WITH_APPROVAL"}
           THEN EndsWith(verdict.enforce.reason, ": Denied pattern: rm -rf")
           ELSE verdict.enforce.reason = "Unknown mode"

C8_Witness ==
    /\ verdict.done
    /\ command = "echo rm -rf /"
    /\ config.mode = "AUTO_READONLY"
    /\ verdict.scope.ok
    /\ verdict.enforce.reason = "Needs approval in AUTO_READONLY: Denied pattern: rm -rf"

\* C9: when a target of the command is in the denylist the command is out of
\* scope and the reason names every such target, even if that target or
\* another one is an allowed domain or host.
C9_DenylistWins ==
    (verdict.done /\ Targets \cap Denylist # {}) =>
        /\ ~verdict.scope.ok
        /\ EndsWith(verdict.scope.reason, " is explicitly out-of-scope.")
        /\ \A t \in Targets \cap Denylist :
               Contains(verdict.scope.reason, ("'" \o t) \o "'")

C9_Witness ==
    /\ verdict.done
    /\ \E t \in Targets \cap Denylist : t \in Domains \cup Hosts
    /\ \E t \in Targets \ Denylist : t \in Domains
    /\ ~verdict.scope.ok

\* C10 as stated: a command referencing sub.example.com and no absolute path
\* is in scope iff example.com is an allowed domain and sub.example.com is not
\* in the denylist.
C10_InScopeIffParentAllowed ==
    (verdict.done /\ "sub.example.com" \in Targets /\ AbsPaths = {}) =>
        (verdict.scope.ok <=>
            ("example.com" \in Domains /\ "sub.example.com" \notin Denylist))

\* C10: a command whose only target is sub.example.com, with no absolute
\* path, is in scope iff sub.example.com is not in the denylist and either an
\* allowed domain is sub.example.com or a dot-suffix of it, or sub.example.com
\* is an allowed host.
C10_InScopeIffSuffixAllowed ==
    (verdict.done /\ Targets = {"sub.example.com"} /\ AbsPaths = {}) =>
        (verdict.scope.ok <=>
            /\ "sub.example.com" \notin Denylist
            /\ \/ Domains \cap {"sub.example.com", "example.com", "com"} # {}
               \/ "sub.example.com" \in Hosts)

C10_Witness ==
    /\ verdict.done
    /\ Targets = {"sub.example.com"}
    /\ AbsPaths = {}
    /\ Domains = {"example.com"}
    /\ Hosts = {}
    /\ verdict.scope.ok

\* C11: a command from which neither a target nor an absolute path is
\* extracted is in scope under every scope, an empty allow list and a
\* non-empty denylist included.
C11_NoTargetNoPathInScope ==
    (verdict.done /\ Targets = {} /\ AbsPaths = {}) =>
        verdict.scope = [ok |-> TRUE, reason |-> "In scope"]

C11_Witness ==
    /\ verdict.done
    /\ command \in {"id", "whoami"}
    /\ Targets = {} /\ AbsPaths = {}
    /\ Domains = {} /\ Hosts = {} /\ Denylist # {}
    /\ verdict.scope.ok

\* the resolved path p is the root or lies below it
Inside(p, root) == p = root \/ root = "/" \/ StartsWith(p, root \o "/")

\* C12: a command is in scope only if each of its absolute-path tokens
\* resolves to an allowed root or to a location below one.
C12_AbsolutePathsInsideRoots ==
    (verdict.done /\ verdict.scope.ok) =>
        \A ap \in AbsPaths :
            \E i \in 1..Len(config.scope.paths) :
                Inside(resolve(ap), resolve(config.scope.paths[i]))

(***************************************************************************)
(* Properties of the session (Spec)                                        *)
(***************************************************************************)

\* C2: through CLI exec, REPL RUN and the AI loop alike, every command that
\* was handed to run_command is one the authorizer did not reject as out of
\* scope, as matching a deny pattern, or as forbidden by PLAN_ONLY/SIMULATE.
C2_NoRejectedCommandRuns ==
    \A r \in executed :
        /\ in_scope_command(config, r.cmd).ok
        /\ ~StartsWith(parsed[r.cmd].class.why, "Denied pattern")
        /\ config.mode \notin {"PLAN_ONLY", "SIMULATE"}

C2_Witness ==
    /\ config.mode = "EXECUTE_WITH_APPROVAL"
    /\ ai.pc = "run"
    /\ ai.ci = 3
    /\ executed = { Ran("ai", "AI-001", 0, "curl https://example.com") }
    /\ parsed["curl https://example.com"].class.risk = "medium"
    /\ console.status = "Blocked by guardrails"

(***************************************************************************)
(* Properties of the executor's functions (SpecRedact, SpecObserve)        *)
(***************************************************************************)

\* C13: redaction is idempotent: redacting a redacted text returns it
\* unchanged.
C13_RedactIdempotent == ret.done => ret.twice = ret.once

C13_Witness ==
    /\ ret.done
    /\ Contains(ret.once, "[JWT_REDACTED]")
    /\ Contains(ret.once, "=[REDACTED]")
    /\ ret.twice = ret.once

\* C14: the aggregate exit code is the largest of the results' exit codes,
\* and it is non-zero whenever some result's exit code is non-zero.
C14_NonZeroDominates ==
    ret.done =>
        /\ \A i \in 1..Len(arg) : arg[i] <= ret.exit_code
        /\ (\E i \in 1..Len(arg) : arg[i] # 0) => ret.exit_code # 0

(***************************************************************************)
(* Properties of the session (Spec): execution                             *)
(***************************************************************************)

\* the block exec was called for, when the console shows an exec
ExecBlockOf(c) ==
    { b \in Range(blocks_file.blocks) : c.op = "exec " \o b.id }

\* C15: a command that outlives its timeout is an ordinary result with exit
\* code 124 and nothing is raised: in the AI loop the step that runs it
\* appends 124 to the results and goes on to the next command of the block,
\* and the observation of a block that had a timeout shows an exit code of
\* 124 or more; exec with a timeout and no failing command runs every
\* command and logs an observation with an exit code of 124 or more.
C15_TimeoutStep ==
    (ai.pc = "run" /\ console'.op = "ai" /\ console'.hows = << "hangs" >>) =>
        /\ ai'.pc = "run"
        /\ ai'.ci = ai.ci + 1
        /\ ai'.results = Append(ai.results, 124)

C15_TimeoutObserved ==
    (ai.pc = "run" /\ console'.op = "ai" /\ console'.status = "Observation"
        /\ 124 \in Range(ai.results)) =>
        \E n \in 124..255 : console'.detail = "exit=" \o Str(n)

C15_ExecTimeout ==
    (/\ StartsWith(console.op, "exec ")
     /\ "hangs" \in Range(console.hows)
     /\ Range(console.hows) \subseteq {"hangs", "exits"}) =>
        /\ console.status = "Observation"
        /\ \A b \in ExecBlockOf(console) : Len(console.hows) = Len(b.commands)
        /\ audit # << >>
        /\ audit[Len(audit)].exit_code >= 124
        /\ audit[Len(audit)].n = Len(console.hows)

C15_TimeoutIsOrdinaryResult ==
    /\ [][C15_TimeoutStep /\ C15_TimeoutObserved]_vars
    /\ [](C15_ExecTimeout)

C15_Witness ==
    /\ console = Said("ai", "Observation", "exit=124")
    /\ \E i \in 1..Len(memory) : StartsWith(memory[i].text.say, "Executed block ")

\* C16: a command that cannot be tokenized or started fails alone: the AI
\* loop is still running its block afterwards, so that the remaining commands
\* are processed and the block's summary is recorded.
C16_FailureConfined ==
    (console.op = "ai" /\ console.status = "raised") => ai.pc = "run"

\* C17: exec runs commands only for a block whose approval marker was
\* recorded before: an exec of a block without marker ends with the
\* approval error, runs no command and appends nothing to the audit log, and
\* every command exec has run belongs to an approved block.
C17_ExecStep ==
    \A id \in CliBlockIds :
        (console'.op = "exec " \o id /\ id \notin approved) =>
            /\ console'.status = "SystemExit"
            /\ console'.detail = "Block not approved."
            /\ executed' = executed
            /\ audit' = audit

C17_ExecNeedsMarker ==
    /\ [][C17_ExecStep]_vars
    /\ [](\A r \in executed : r.via = "exec" => r.block \in approved)

C17_Witness ==
    /\ console.op = "exec " \o BlockId(2)
    /\ console.detail = "Block not approved."
    /\ approved = { BlockId(1) }
    /\ \E r \in executed : r.via = "exec" /\ r.block = BlockId(1)

(***************************************************************************)
(* Properties of the session (Spec): the audit log and the block ids       *)
(***************************************************************************)

\* the blocks whose execution summary the AI loop has recorded
Summarized ==
    { b \in presented :
        \E i \in 1..Len(memory) : memory[i].text.say = "Executed block " \o b.id }

\* C18: every proposal of blocks and every execution of a block has its
\* record in the audit log.
C18_EveryEventAudited ==
    /\ blocks_file.exists => \E i \in 1..Len(audit) : audit[i].type = "proposal"
    /\ \A b \in Summarized : \E i \in 1..Len(audit) : audit[i].block_id = b.id

\* C19: the audit log is append-only: each step leaves the lines it found
\* as the first lines of the log.
C19_AuditAppendOnly ==
    [][/\ Len(audit) <= Len(audit')
       /\ audit = SubSeq(audit', 1, Len(audit))]_vars

C19_Witness ==
    /\ Len(audit) = 2
    /\ audit[1].block_id = "ADHOC"
    /\ audit[2].block_id = BlockId(1)

\* C20: block identifiers are unique within a session: two blocks proposed
\* or put to the approval prompt with the same id are the same block.
C20_BlockIdsUnique ==
    \A b1, b2 \in presented : b1.id = b2.id => b1 = b2

(***************************************************************************)
(* Properties of the processes of a block (SpecRun)                        *)
(***************************************************************************)

\* C21: execution is strictly sequential: the commands are started in the
\* order of the block, and at no time are two command processes alive,
\* a timeout included.
C21_StrictlySequential ==
    /\ \A i \in 1..Len(ret.started) : ret.started[i] = i
    /\ Cardinality(ret.alive) <= 1

(***************************************************************************)
(* Properties of the session (Spec): blocks, proposals and prompts         *)
(***************************************************************************)

\* C22: a rejected command of a block is skipped alone: when exec is called
\* for an approved block with a command the authorizer rejects, the block is
\* still run to an observation (or to a command that raises), and when the
\* observation is there every command the authorizer does not reject has run.
C22_RejectionSkipsOneCommand ==
    \A b \in ExecBlockOf(console) :
        (b.id \in approved /\ \E i \in 1..Len(b.commands) :
                                  ~enforce(config, b.commands[i]).allow) =>
            /\ console.status \in {"Observation", "raised"}
            /\ console.status = "Observation" =>
                   \A i \in 1..Len(b.commands) :
                       enforce(config, b.commands[i]).allow =>
                           Ran("exec", b.id, i - 1, b.commands[i]) \in executed

(***************************************************************************)
(* Properties of propose_blocks_from_ai (SpecPropose)                      *)
(***************************************************************************)

\* the valid blocks a text can be parsed into
ValidBlocks(t) == normalize_blocks(extract_blocks_json(t))

\* the assistant messages of a memory that hold a valid block batch
ValidBatches(mem) ==
    { i \in 1..Len(mem) : mem[i].role = "assistant" /\ ValidBlocks(mem[i].text) # << >> }

\* C23: a reply that cannot be parsed into valid blocks is followed by one
\* retry and never by more; when the retry fails too the newest assistant
\* message of the memory with a valid batch is taken, and when there is none
\* the cycle yields zero blocks.
C23_RetryThenFallback ==
    ret.done =>
        /\ ret.calls \in {1, 2}
        /\ ret.calls = 2 <=> ValidBlocks(arg.reply) = << >>
        /\ ValidBlocks(arg.reply) # << >> => ret.blocks = ValidBlocks(arg.reply)
        /\ (ValidBlocks(arg.reply) = << >> /\ ValidBlocks(arg.retry) # << >>) =>
               ret.blocks = ValidBlocks(arg.retry)
        /\ (ValidBlocks(arg.reply) = << >> /\ ValidBlocks(arg.retry) = << >>) =>
               ret.blocks = IF ValidBatches(arg.history) = {} THEN << >>
                            ELSE ValidBlocks(arg.history[Max(ValidBatches(arg.history))].text)

(***************************************************************************)
(* Properties of the session (Spec): the proposal loop                     *)
(***************************************************************************)

NotJson == Text("not json at all", << >>)

\* the proposer has answered "not json at all" to the request and the retry
TwoFailures ==
    /\ ai.pc = "propose"
    /\ memory' = Append(Append(memory, Msg("assistant", NotJson)),
                        Msg("assistant", NotJson))

C24_ContinuePrompt ==
    (ai.pc = "continue?" /\ console'.status = "Continue?") =>
        /\ executed' = executed
        /\ ai'.pc = IF console'.detail \in {"y", " YES "} THEN "propose" ELSE "off"

AffirmsCompletion(ack) == Upper(Strip(ack)) = "DONE"

\* C25: after a batch the loop ends exactly when the proposer's answer to
\* the completion question affirms completion; after CONTINUE or a negative
\* statement it starts another proposal cycle.
C25_EndsExactlyOnCompletion ==
    [][(ai.pc = "done?" /\ Len(memory') = Len(memory) + 1) =>
          LET ack == memory'[Len(memory')].text.say IN
          /\ AffirmsCompletion(ack) => ai'.pc = "off"
          /\ ~AffirmsCompletion(ack) => ai'.pc = "propose"]_vars

Approval(id, word) == (("Approval for " \o id) \o ": ") \o word

\* the decision on a presented block goes to memory at the prompt, and a
\* command of the AI loop runs only with the approval of its block in memory
C26_DecisionFirst ==
    /\ ai.pc = "approve?" =>
           \/ memory' = memory
           \/ \E word \in {"yes", "no"} :
                  memory' = Append(memory,
                      Msg("user", Text(Approval(ai.batch[ai.bi].id, word), << >>)))
    /\ \A r \in executed' \ executed :
           r.via = "ai" =>
               \E i \in 1..Len(memory) : memory[i].text.say = Approval(r.block, "yes")

\* once the loop has left an approved block, the summary of its execution
\* follows the approval in memory
C26_SummaryFollows ==
    ai.pc # "run" =>
        \A i \in 1..Len(memory) :
            (\E b \in presented : memory[i].text.say = Approval(b.id, "yes")) =>
                \E j \in (i + 1)..Len(memory) :
                    \E b \in presented :
                        /\ memory[i].text.say = Approval(b.id, "yes")
                        /\ memory[j].text.say = "Executed block " \o b.id

\* C26: the approval decision on a block is in memory before any of its
\* commands runs, and every approved block gets its execution summary in
\* memory, whatever the outcome.
C26_DecisionAndSummaryPersisted ==
    /\ [][C26_DecisionFirst]_vars
    /\ [](C26_SummaryFollows)

\* C27: the kill-switch phrase typed at a prompt of the AI loop (the
\* approval of a block, the question whether to continue) stops the session:
\* the loop is over and no further block is presented or run.
C27_KillSwitchStops ==
    [][(/\ ai.pc \in {"approve?", "continue?"}
        /\ console'.status \in {"Approve this block?", "Continue?"}
        /\ console'.detail = KILL_SWITCH) => ai'.pc = "off"]_vars

(***************************************************************************)
(* Properties of loading a session (SpecLoad)                              *)
(***************************************************************************)

\* session.json does not match the schema: a required field or the mode is
\* missing, a field has the wrong type, or the mode is not one of the four
SchemaMismatch(data) ==
    \/ Absent \in { data.authorization_doc, data.scope, data.mode }
    \/ data.authorization_doc.t # "str"
    \/ data.scope.t # "obj"
    \/ data.rate_limit_per_sec.t \notin {"absent", "num"}
    \/ (data.mode.t = "str" /\ data.mode.v \notin Modes) \/ data.mode.t \in {"num", "obj"}
    \/ data.kill_switch.t \notin {"absent", "str"}

\* C28: loading fails closed: a session.json that does not match the schema
\* is rejected, and a session that is used has the mode the file gives.
C28_LoadFailsClosed ==
    ret.done =>
        /\ SchemaMismatch(arg) => ret.rejected
        /\ ~ret.rejected => (arg.mode.t = "str" /\ ret.config.mode = arg.mode.v)

(***************************************************************************)
(* Properties of the session (Spec): the lifecycle of a block              *)
(***************************************************************************)

\* the ids of the blocks in the pending-blocks file
Proposed == { b.id : b \in Range(blocks_file.blocks) }

\* C29: a block is proposed, then approved, then executed: every approval
\* marker belongs to a block of the pending-blocks file, and every block
\* exec has run was proposed and approved.
C29_ProposedApprovedExecuted ==
    /\ approved \subseteq Proposed
    /\ \A r \in executed : r.via = "exec" => r.block \in approved \cap Proposed

\* C30: in mode EXECUTE_WITH_APPROVAL exec runs a block that was proposed
\* and approved and whose commands are all in scope and free of deny
\* patterns: exec does not refuse it.
C30_ApprovedBlockRuns ==
    \A b \in ExecBlockOf(console) :
        (/\ config.mode = "EXECUTE_WITH_APPROVAL"
         /\ b.id \in approved
         /\ \A i \in 1..Len(b.commands) :
                /\ in_scope_command(config, b.commands[i]).ok
                /\ parsed[b.commands[i]].deny_hits = {}) =>
            console.status # "SystemExit"

(***************************************************************************)
(* Properties of the session (Spec): exec and the approval prompt          *)
(***************************************************************************)

\* the SystemExit message of exec for the command it rejects
RejectionOf(c) ==
    (("Blocked/Needs approval: " \o c) \o "\nReason: ") \o enforce(config, c).reason

\* C31: exec is all-or-nothing: an exec of an approved block with a command
\* that enforce does not allow ends with the reason of its first such
\* command, runs no command of the block and appends no audit record.
C31_ExecStep ==
    \A b \in Range(blocks_file.blocks) :
        LET rejected == { i \in 1..Len(b.commands) :
                            ~enforce(config, b.commands[i]).allow }
        IN  (console'.op = "exec " \o b.id /\ b.id \in approved /\ rejected # {}) =>
                /\ console'.status = "SystemExit"
                /\ console'.detail = RejectionOf(b.commands[Min(rejected)])
                /\ executed' = executed
                /\ audit' = audit

C31_ExecAllOrNothing == [][C31_ExecStep]_vars

C31_Witness ==
    /\ config.mode = "AUTO_READONLY"
    /\ console.op = "exec " \o BlockId(2)
    /\ console.status = "SystemExit"
    /\ console.detail = RejectionOf("dig +short sub.example.com")
    /\ BlockId(2) \in approved
    /\ \E r \in executed : r.via = "exec" /\ r.block = BlockId(1)

\* the newest approval decision in memory
LastDecision ==
    LET hits == { i \in 1..Len(memory) :
                    StartsWith(memory[i].text.say, "Approval for ") }
    IN  IF hits = {} THEN "" ELSE memory[Max(hits)].text.say

\* C32: in the AI loop a command of a block runs only after an affirmative
\* answer (y, yes) to the approval prompt of that block; any other answer,
\* the empty one included, skips the whole block and the loop moves to the
\* next block.
C32_PromptStep ==
    (ai.pc = "approve?" /\ console'.status = "Approve this block?") =>
        IF console'.detail \in {"y", " YES "}
        THEN /\ ai'.pc = "run" /\ ai'.bi = ai.bi
             /\ executed' = executed
        ELSE /\ executed' = executed
             /\ IF ai.bi < Len(ai.batch)
                THEN ai'.pc = "approve?" /\ ai'.bi = ai.bi + 1
                ELSE ai'.pc = "done?"

C32_RunStep ==
    \A r \in executed' \ executed :
        r.via = "ai" =>
            /\ ai.pc = "run"
            /\ r.block = ai.batch[ai.bi].id
            /\ LastDecision = Approval(r.block, "yes")

C32_OnlyApprovedBlocksRun == [][C32_PromptStep /\ C32_RunStep]_vars

C32_Witness ==
    /\ console = Said("ai", "Approve this block?", "")
    /\ ai.pc = "approve?" /\ ai.bi = 2
    /\ LastDecision = Approval("AI-001", "no")
    /\ executed = {}

FenceGroup(toks) ==
    LET i == CHOOSE k \in 1..Len(toks) :
                 toks[k] = FenceJson /\ \A m \in 1..(k - 1) : toks[m] # FenceJson
        j == CHOOSE k \in (i + 1)..Len(toks) :
                 /\ toks[k] \in {FenceJson, Fence}
                 /\ \A m \in (i + 1)..(k - 1) : toks[m] \notin {FenceJson, Fence}
    IN  SubSeq(toks, i + 1, j - 1)

HasFence(toks) ==
    \E i \in 1..Len(toks) : \E j \in (i + 1)..Len(toks) :
        toks[i] = FenceJson /\ toks[j] \in {FenceJson, Fence}

\* the list a JSON text stands for, the list under "blocks" for an object
ListOf(toks) ==
    IF Len(toks) > 0 /\ toks[1] = BlocksKey THEN SubSeq(toks, 2, Len(toks) - 1) ELSE toks

YieldsList(toks) == json_loads_ok(toks) /\ ListOf(toks)[1] = "["

\* C33: the reply is parsed directly, then as the content of its first
\* fenced block, then by a scan from its first bracket to the bracket that
\* balances it; the first of the three that yields a list gives the result,
\* one that fails or yields no list lets the next one run, and when none
\* yields a list the result is the empty list.
C33_ParserChain ==
    ret.done =>
        /\ json_loads_ok(ret.blocks) /\ ret.blocks[1] = "["
        /\ IF YieldsList(arg) THEN ret.blocks = ListOf(arg)
           ELSE IF HasFence(arg) /\ YieldsList(FenceGroup(arg))
           THEN ret.blocks = ListOf(FenceGroup(arg))
           ELSE IF bracket_scan(arg).some THEN ret.blocks = bracket_scan(arg).val
           ELSE ret.blocks = EmptyList

\* a fenced block that holds an object without a list, then a bare array
C33_Witness ==
    /\ ret.done
    /\ arg = << FenceJson, BlockObject, Fence, "[", BlockObject, ",", BlockObject, "]" >>
    /\ ret.blocks = << "[", BlockObject, ",", BlockObject, "]" >>

(***************************************************************************)
(* Properties of the key lines (SpecKeyLines)                              *)
(***************************************************************************)
\* the lines of the output, counted by its newlines
LineCount(text) ==
    IF Len(text) = 0 THEN 0
    ELSE Cardinality({ i \in 1..Len(text) : Ch(text, i) = "\n" })
            + (IF Ch(text, Len(text)) = "\n" THEN 0 ELSE 1)

\* the lines the key lines leave out: neither among the first 20 nor among
\* the last 10
Omitted(n) == { i \in 1..n : i > 20 /\ i <= n - 10 }

\* the key lines are the first 20 lines, the marker, the last 10 lines
KeyLinesShape ==
    LET n     == LineCount(arg)
        lines == splitlines(arg)
        h     == IF n < 20 THEN n ELSE 20
        t     == IF n < 10 THEN n ELSE 10
        key   == ret.key_lines
    IN  /\ Len(lines) = n
        /\ Len(key) = (h + 1) + t /\ Len(key) <= 31
        /\ \A k \in 1..h : key[k] = lines[k]
        /\ key[h + 1] = "..."
        /\ \A k \in 1..t : key[(h + 1) + k] = lines[(n - t) + k]

\* C34 as stated: the key lines of a non-empty output are the first 20
\* lines, the marker and the last 10 lines, never more than 31 entries, and
\* they never reproduce every line of the output; they are empty exactly
\* when the output is empty.
C34_NeverEveryLine ==
    ret.done =>
        /\ (ret.key_lines = << >>) <=> (arg = "")
        /\ arg # "" => (KeyLinesShape /\ Omitted(LineCount(arg)) # {})

\* C34: the key lines of a non-empty output are the first 20 lines, the
\* marker and the last 10 lines, never more than 31 entries; they leave
\* lines out exactly when the output has more than 30 lines, and reproduce
\* every line (twice, when it is among the first 20 and the last 10)
\* otherwise; they are empty exactly when the output is empty.
C34_BoundedPreview ==
    ret.done =>
        /\ (ret.key_lines = << >>) <=> (arg = "")
        /\ arg # "" =>
              /\ KeyLinesShape
              /\ Omitted(LineCount(arg)) # {} <=> LineCount(arg) > 30
              /\ LineCount(arg) <= 30 =>
                    \A i \in 1..LineCount(arg) :
                        \E k \in 1..Len(ret.key_lines) :
                            k # 1 + (IF LineCount(arg) < 20 THEN LineCount(arg) ELSE 20)
                            /\ ret.key_lines[k] = splitlines(arg)[i]

C34_Witness ==
    /\ ret.done
    /\ arg = "L1\nL2\n"
    /\ ret.key_lines = << "L1", "L2", "...", "L1", "L2" >>

(***************************************************************************)
(* Properties of the log files (SpecLogs)                                  *)
(***************************************************************************)
\* C36: after any sequence of executions, the log files of every earlier
\* execution still hold the output of that execution: no execution has
\* written over the .out or .err file of another one.
C36_LogsNeverOverwritten ==
    \A w \in ret.written : w \in ret.files

(***************************************************************************)
(* Properties of ShellTool.run (SpecShell)                                 *)
(***************************************************************************)
\* the command was confirmed: auto_confirm is set or the operator's answer
\* is y or yes
Confirmed ==
    \/ arg.auto_confirm
    \/ ~arg.answer.eof /\ Lower(Strip(arg.answer.text)) \in {"y", "yes"}

\* C38: a command that matches one of the DANGEROUS_PATTERNS and was not
\* confirmed is not executed: run returns return code 2 with the rejection
\* message.
C38_DangerousNeedsConfirmation ==
    (ret.done /\ matches_dangerous(Strip(arg.command)) /\ ~Confirmed) =>
        /\ ~ret.result.executed
        /\ ret.result.return_code = 2
        /\ ret.result.output = "Command rejected by safety policy"
====
